---- MODULE Spec2Model ----
(***************************************************************************)
(* Client level parsing and level-history tracking of the Born to Ski      *)
(* dashboards: the name/level extractors of db.py and of the page          *)
(* 2_Base_de_Clientes.py, sync_clients_from_df of db.py and the button     *)
(* that calls it, and the changes log and the client history of the page   *)
(* 3_Evolucao_de_Nivel.py.                                                 *)
(*                                                                         *)
(* A Python string is a sequence of one-character strings.  An optional    *)
(* value is a sequence of length 0 (None / SQL NULL) or 1 (the value).     *)
(***************************************************************************)
EXTENDS Integers, Sequences, FiniteSets, TLC

VARIABLES
    clients,        \* table clients as the open connection sees it: evo_id -> row
    level_history,  \* table level_history as the open connection sees it, in id order
    last_id,        \* AUTOINCREMENT counter of level_history (sqlite_sequence)
    last_synced,    \* history variable: evo_id -> the last row of a df synced for it
    pc,             \* "idle", or "loop" inside sync_clients_from_df
    hoje,           \* local of the running sync: date.today() at its start (0: no sync runs)
    today,          \* the calendar day
    x_in,           \* argument handed to the extractors
    x_db,           \* <<result>> of db._extract_nome_e_nivel(x_in), <<>> before the call
    x_split,        \* <<result>> of split_nome_e_nivel(x_in), <<>> before the call
    sync_msg,       \* what the sync button of page 2 last reported, <<>> before a click
    df_changes,     \* <<the changes log>> page 3 last showed, <<>> before a rendering
    df_hist,        \* <<the history of the selected client>> page 3 last showed
    daily_clients,  \* table daily_clients, in rowid order
    github,         \* the backup repository: its configuration and backups/<table>.csv
    restore_msg,    \* what the restore button last reported, <<>> before a click
    fetch,          \* frame of the call of _api_fetch_levels_for_ids
    requests,       \* history variable: member id -> number of profile requests, last answer
    levels_csv,     \* what _load_levels_dict_from_csv brought, <<>> before it is called
    levels_dict,    \* <<levels_dict of gerar_csv>>, <<>> before the merge
    auth,           \* per browser session: <<st.session_state.auth>>, <<>> while the
                    \* session has no such key
    page,           \* per session, the last run of app.py: the allowed_roles it passed,
                    \* and whether require_login returned or halted the run
    supplied        \* history variable: per session, the credentials last submitted

vars == <<clients, level_history, last_id, last_synced, pc, hoje,
          today, x_in, x_db, x_split, sync_msg, df_changes, df_hist,
          daily_clients, github, restore_msg, fetch, requests, levels_csv,
          levels_dict, auth, page, supplied>>

dbvars == <<clients, level_history, last_id, last_synced, pc, hoje,
            today>>

xvars == <<x_in, x_db, x_split>>

uivars == <<sync_msg, df_changes, df_hist>>

sidevars == <<daily_clients, github, restore_msg, fetch, requests, levels_csv,
             levels_dict>>

authvars == <<auth, page, supplied>>

None == <<>>
Some(v) == <<v>>
EmptyStr == <<>>

(***************************************************************************)
(* Bounds of the model.                                                    *)
(***************************************************************************)
MaxFrags == 3      \* an extractor argument is at most this many fragments
MaxHist == 3       \* rows of level_history
MaxDay == 2        \* calendar days

(***************************************************************************)
(* Characters.                                                             *)
(***************************************************************************)
\* str.strip() and the regex class \s: blank and tab stand for the whitespace.
IsSpace(ch) == ch \in {" ", "\t"}

\* str.upper() on one character.
Upper(ch) ==
    CASE ch = "a" -> "A"
      [] ch = "b" -> "B"
      [] ch = "c" -> "C"
      [] ch = "d" -> "D"
      [] ch = "k" -> "K"
      [] ch = "l" -> "L"
      [] ch = "n" -> "N"
      [] ch = "o" -> "O"
      [] ch = "s" -> "S"
      [] ch = "u" -> "U"
      [] ch = "ã" -> "Ã"
      [] OTHER -> ch

UpperStr(s) == [i \in 1..Len(s) |-> Upper(s[i])]

RECURSIVE LStrip(_)
LStrip(s) == IF s # <<>> /\ IsSpace(Head(s)) THEN LStrip(Tail(s)) ELSE s

RECURSIVE RStrip(_)
RStrip(s) ==
    IF s # <<>> /\ IsSpace(s[Len(s)]) THEN RStrip(SubSeq(s, 1, Len(s) - 1)) ELSE s

\* str.strip()
Strip(s) == RStrip(LStrip(s))

(***************************************************************************)
(* db.py: LEVEL_ORDER and _extract_nome_e_nivel.                           *)
(***************************************************************************)
LEVEL_ORDER_wrong ==
    (<<"1","A">> :> 10) @@ (<<"1","B">> :> 11) @@ (<<"1","C">> :> 12) @@ (<<"1","D">> :> 13) @@
    (<<"2","A">> :> 20) @@ (<<"2","B">> :> 21) @@ (<<"2","C">> :> 22) @@ (<<"2","D">> :> 23) @@
    (<<"3","A">> :> 30) @@ (<<"3","B">> :> 31) @@ (<<"3","C">> :> 23) @@ (<<"3","D">> :> 33) @@
    (<<"4","A">> :> 40) @@ (<<"4","B">> :> 41) @@ (<<"4","C">> :> 42) @@ (<<"4","D">> :> 43)

LEVEL_ORDER ==
    (<<"1","A">> :> 10) @@ (<<"1","B">> :> 11) @@ (<<"1","C">> :> 12) @@ (<<"1","D">> :> 13) @@
    (<<"2","A">> :> 20) @@ (<<"2","B">> :> 21) @@ (<<"2","C">> :> 22) @@ (<<"2","D">> :> 23) @@
    (<<"3","A">> :> 30) @@ (<<"3","B">> :> 31) @@ (<<"3","C">> :> 32) @@ (<<"3","D">> :> 33) @@
    (<<"4","A">> :> 40) @@ (<<"4","B">> :> 41) @@ (<<"4","C">> :> 42) @@ (<<"4","D">> :> 43)

\* dict.get(key) with an optional key: None for None and for a missing key.
DictGet(d, k) == IF k # None /\ k[1] \in DOMAIN d THEN Some(d[k[1]]) ELSE None

\* First index >= i of u holding no whitespace (Len(u) + 1 if there is none).
RECURSIVE SkipSpace(_, _)
SkipSpace(u, i) == IF i <= Len(u) /\ IsSpace(u[i]) THEN SkipSpace(u, i + 1) ELSE i

RECURSIVE FindAllFrom_word(_, _)
FindAllFrom_word(u, i) ==
    IF i > Len(u) THEN <<>>
    ELSE IF u[i] \in {"1", "2", "3", "4"}
         THEN LET j == SkipSpace(u, i + 1)
              IN  IF /\ j <= Len(u) /\ u[j] \in {"A", "B", "C", "D"}
                     /\ (j = Len(u) \/ u[j + 1] \in {" ", "\t", "/", "."})
                  THEN <<SubSeq(u, i, j)>> \o FindAllFrom_word(u, j + 1)
                  ELSE FindAllFrom_word(u, i + 1)
         ELSE FindAllFrom_word(u, i + 1)

\* re.findall(r"([1-4]\s*[A-D])", u): the matches from left to right.
RECURSIVE FindAllFrom(_, _)
FindAllFrom(u, i) ==
    IF i > Len(u) THEN <<>>
    ELSE IF u[i] \in {"1", "2", "3", "4"}
         THEN LET j == SkipSpace(u, i + 1)
              IN  IF j <= Len(u) /\ u[j] \in {"A", "B", "C", "D"}
                  THEN <<SubSeq(u, i, j)>> \o FindAllFrom(u, j + 1)
                  ELSE FindAllFrom(u, i + 1)
         ELSE FindAllFrom(u, i + 1)

FindAll(u) == FindAllFrom(u, 1)

\* m.replace(" ", "")
ReplaceBlank(m) == SelectSeq(m, LAMBDA ch : ch # " ")

\* [m.replace(" ", "") for m in matches]
Normalized(matches) == [i \in 1..Len(matches) |-> ReplaceBlank(matches[i])]

ValidOnly_all(matches, order) == matches

\* [m for m in matches if m in order]
ValidOnly(matches, order) == SelectSeq(matches, LAMBDA m : m \in DOMAIN order)

\* order.get(x, -1)
KeyOf(order, x) == IF x \in DOMAIN order THEN order[x] ELSE -1

\* max(matches, key=lambda x: order.get(x, -1)) of a non-empty list: the first
\* element whose key no other element exceeds.
RECURSIVE MaxFrom(_, _, _)
MaxFrom(matches, order, best) ==
    IF matches = <<>> THEN best
    ELSE MaxFrom(Tail(matches), order,
                 IF KeyOf(order, Head(matches)) > KeyOf(order, best)
                 THEN Head(matches) ELSE best)

MaxByOrder_first(matches, order) == Head(matches)

MaxByOrder(matches, order) == MaxFrom(Tail(matches), order, Head(matches))

_extract_nome_e_nivel_strip(nome_bruto) ==
    IF nome_bruto.kind # "str" THEN <<EmptyStr, None>>
    ELSE LET texto == Strip(nome_bruto.text)
             found == FindAll(UpperStr(texto))
             valid == ValidOnly(Normalized(found), LEVEL_ORDER)
         IN  IF texto = EmptyStr THEN <<EmptyStr, None>>
             ELSE IF found = <<>> THEN <<texto, None>>
             ELSE IF valid = <<>> THEN <<texto, None>>
             ELSE <<Strip(SelectSeq(texto, LAMBDA ch : ch \notin {"1", "2", "3", "4"})),
                    Some(MaxByOrder(valid, LEVEL_ORDER))>>

\* The argument of an extractor: kind "none" (None), "str" (a str, text is its
\* value) or "obj" (any other value: text is str(value), and truth is "true" or
\* "false", the value of bool(value), or "raises" when bool(value) raises, as it
\* does for pandas.NA and for an array of several elements).
\* db._extract_nome_e_nivel returns (nome_limpo, nivel).
_extract_nome_e_nivel(nome_bruto) ==
    IF nome_bruto.kind # "str" THEN <<EmptyStr, None>>
    ELSE LET texto == Strip(nome_bruto.text)
             found == FindAll(UpperStr(texto))
             valid == ValidOnly(Normalized(found), LEVEL_ORDER)
         IN  IF texto = EmptyStr THEN <<EmptyStr, None>>
             ELSE IF found = <<>> THEN <<texto, None>>
             ELSE IF valid = <<>> THEN <<texto, None>>
             ELSE <<Strip(texto), Some(MaxByOrder(valid, LEVEL_ORDER))>>

(***************************************************************************)
(* pages/2_Base_de_Clientes.py: LEVEL_ORDER_MAP and split_nome_e_nivel.    *)
(***************************************************************************)
LEVEL_ORDER_MAP ==
    (<<"1","A">> :> 10) @@ (<<"1","B">> :> 11) @@ (<<"1","C">> :> 12) @@ (<<"1","D">> :> 13) @@
    (<<"2","A">> :> 20) @@ (<<"2","B">> :> 21) @@ (<<"2","C">> :> 22) @@ (<<"2","D">> :> 23) @@
    (<<"3","A">> :> 30) @@ (<<"3","B">> :> 31) @@ (<<"3","C">> :> 32) @@ (<<"3","D">> :> 33) @@
    (<<"4","A">> :> 40) @@ (<<"4","B">> :> 41) @@ (<<"4","C">> :> 42) @@ (<<"4","D">> :> 43)

\* The regex class \w, by its complement among the characters of the model.
IsWord(ch) == ch \notin {" ", "\t", "/", ".", "+", "-", "'", "[", "]"}

\* The regex assertion \b before position p of s (1 <= p <= Len(s) + 1).
WordBoundary(s, p) ==
    (p > 1 /\ IsWord(s[p - 1])) # (p <= Len(s) /\ IsWord(s[p]))

\* s has the literal lit at position i, ignoring case.
HasAt(s, i, lit) ==
    /\ i + Len(lit) - 1 <= Len(s)
    /\ UpperStr(SubSeq(s, i, i + Len(lit) - 1)) = lit

\* The alternatives of (?:SKI?|SBI?)? in the order the regex engine tries them.
Suffixes == << <<"S","K","I">>, <<"S","K">>, <<"S","B","I">>, <<"S","B">>, <<>> >>

\* Position after the match of \b code (?:SKI?|SBI?)? \b at position i of s, 0 when
\* there is no match there.
RECURSIVE MatchEndFrom(_, _, _, _)
MatchEndFrom(s, i, code, k) ==
    IF k > Len(Suffixes) THEN 0
    ELSE LET e == i + Len(code) + Len(Suffixes[k])
         IN  IF HasAt(s, i + Len(code), Suffixes[k]) /\ WordBoundary(s, e)
             THEN e
             ELSE MatchEndFrom(s, i, code, k + 1)

MatchEnd(s, i, code) ==
    IF WordBoundary(s, i) /\ HasAt(s, i, code) THEN MatchEndFrom(s, i, code, 1) ELSE 0

\* re.sub(r'\b' + code + r'(?:SKI?|SBI?)?\b', '', s, flags=re.IGNORECASE)
RECURSIVE RemoveCodeFrom(_, _, _)
RemoveCodeFrom(s, i, code) ==
    IF i > Len(s) THEN <<>>
    ELSE LET e == MatchEnd(s, i, code)
         IN  IF e > 0 THEN RemoveCodeFrom(s, e, code)
             ELSE <<s[i]>> \o RemoveCodeFrom(s, i + 1, code)

RemoveCode(s, code) == RemoveCodeFrom(s, 1, code)

\* for code in set(matches): nome_limpo = re.sub(...).  A match is a whole run of
\* word characters and leaves its delimiters in place, so the result does not
\* depend on the order in which the set is iterated.
RECURSIVE RemoveCodes(_, _)
RemoveCodes(s, codes) ==
    IF codes = <<>> THEN s ELSE RemoveCodes(RemoveCode(s, Head(codes)), Tail(codes))

\* re.sub(r'\s+', ' ', s)
RECURSIVE CollapseSpace(_)
CollapseSpace(s) ==
    IF s = <<>> THEN <<>>
    ELSE IF IsSpace(Head(s)) THEN <<" ">> \o CollapseSpace(LStrip(s))
    ELSE <<Head(s)>> \o CollapseSpace(Tail(s))

\* The result of a call that raises TypeError.
TypeError == <<"TypeError">>

\* bool(nome) raises.
BoolRaises(nome) == nome.kind = "obj" /\ nome.truth = "raises"

Truthy_always(nome) == TRUE

\* bool(nome), when it does not raise.
Truthy(nome) ==
    CASE nome.kind = "none" -> FALSE
      [] nome.kind = "str" -> nome.text # EmptyStr
      [] OTHER -> nome.truth = "true"

\* split_nome_e_nivel returns (nome_limpo, nivel_atual, nivel_ordem).
split_nome_e_nivel(nome) ==
    IF BoolRaises(nome) THEN TypeError
    ELSE IF ~Truthy(nome) THEN <<EmptyStr, None, None>>
    ELSE LET nome_str == Strip(nome.text)
             found == FindAll(UpperStr(nome_str))
             valid == ValidOnly(Normalized(found), LEVEL_ORDER_MAP)
             best == MaxByOrder(valid, LEVEL_ORDER_MAP)
         IN  IF found = <<>> THEN <<nome_str, None, None>>
             ELSE IF valid = <<>> THEN <<nome_str, None, None>>
             ELSE <<Strip(CollapseSpace(RemoveCodes(nome_str, valid))),
                    Some(best), DictGet(LEVEL_ORDER_MAP, Some(best))>>

(***************************************************************************)
(* pages/3_Evolucao_de_Nivel.py: LEVELS and LEVEL_INDEX.                   *)
(***************************************************************************)
LEVELS ==
    << <<"1","A">>, <<"1","B">>, <<"1","C">>, <<"1","D">>,
       <<"2","A">>, <<"2","B">>, <<"2","C">>, <<"2","D">>,
       <<"3","A">>, <<"3","B">>, <<"3","C">>, <<"3","D">>,
       <<"4","A">>, <<"4","B">>, <<"4","C">>, <<"4","D">> >>

\* {lvl: i for i, lvl in enumerate(LEVELS)}
LEVEL_INDEX(lvl) == (CHOOSE i \in 1..Len(LEVELS) : LEVELS[i] = lvl) - 1

(***************************************************************************)
(* The extractors as a state machine: an argument is drawn, then each      *)
(* extractor is applied to it once.                                        *)
(***************************************************************************)
\* Pieces of labels: level tokens (plain, with a blank, with a tab, lower case
\* with a glued qualifier, out of range), separators and a name.
Fragments ==
    { <<"2","A">>, <<"3","C">>, <<"1","D">>, <<"2"," ","B">>, <<"4","\t","A">>,
      <<"1","b","s","k">>, <<"5","A">>, <<"1","E">>, <<" ">>, <<"/">>,
      <<"J","o","ã","o"," ","P","a","u","l","o"," ">> }

RECURSIVE Texts(_)
Texts(n) ==
    IF n = 0 THEN {<<>>}
    ELSE LET shorter == Texts(n - 1)
         IN  shorter \cup {t \o f : t \in shorter, f \in Fragments}

StrArg(t) == [kind |-> "str", truth |-> IF t # EmptyStr THEN "true" ELSE "false",
              text |-> t]
NoneArg == [kind |-> "none", truth |-> "false", text |-> <<"N","o","n","e">>]
ObjArg(b, t) == [kind |-> "obj", truth |-> b, text |-> t]

\* None, every str of at most MaxFrags fragments, and non-str values (a list, a
\* number, ...) given by their truth value and their str().
Inputs ==
    {NoneArg} \cup {StrArg(t) : t \in Texts(MaxFrags)}
              \cup {ObjArg(b, t) : b \in {"true", "false", "raises"},
                                   t \in Texts(MaxFrags - 1)}

\* The tables right after init_db_if_needed() on a new file, no sync running.
DbIdle ==
    /\ clients = <<>>
    /\ level_history = <<>>
    /\ last_id = 0
    /\ last_synced = <<>>
    /\ pc = "idle"
    /\ hoje = 0
    /\ today = 1

\* No page has shown anything yet.
NothingShown ==
    /\ sync_msg = None
    /\ df_changes = None
    /\ df_hist = None

\* No backup repository is configured (GITHUB_OWNER and GITHUB_REPO default to '').
NoGithub == [configured |-> FALSE, files |-> <<>>]

\* _api_fetch_levels_for_ids has not been called.
NoFetch ==
    [pc |-> "idle", member_ids |-> <<>>, idx |-> 0, attempt |-> 0,
     levels_api |-> <<>>, errors |-> <<>>, late |-> FALSE]

MaxSessions == 2

Sessions == 1..MaxSessions

\* New browser sessions: no key 'auth', no run of the script yet.
NoSession ==
    /\ auth = [s \in Sessions |-> None]
    /\ page = [s \in Sessions |-> None]
    /\ supplied = [s \in Sessions |-> None]

SideIdle ==
    /\ daily_clients = <<>>
    /\ github = NoGithub
    /\ restore_msg = None
    /\ fetch = NoFetch
    /\ requests = <<>>
    /\ levels_csv = None
    /\ levels_dict = None

InitExtract ==
    /\ DbIdle
    /\ NothingShown
    /\ SideIdle
    /\ NoSession
    /\ x_in \in Inputs
    /\ x_db = None
    /\ x_split = None

CallExtract ==
    /\ x_db = None
    /\ x_db' = Some(_extract_nome_e_nivel(x_in))
    /\ UNCHANGED <<x_in, x_split>>
    /\ UNCHANGED dbvars
    /\ UNCHANGED uivars
    /\ UNCHANGED authvars
    /\ UNCHANGED sidevars

CallSplit ==
    /\ x_split = None
    /\ x_split' = Some(split_nome_e_nivel(x_in))
    /\ UNCHANGED <<x_in, x_db>>
    /\ UNCHANGED dbvars
    /\ UNCHANGED uivars
    /\ UNCHANGED authvars
    /\ UNCHANGED sidevars

NextExtract == CallExtract \/ CallSplit

SpecExtract == InitExtract /\ [][NextExtract]_vars

(***************************************************************************)
(* db.py: sync_clients_from_df.  A row of df_clientes is drawn when        *)
(* iterrows() yields it.                                                   *)
(***************************************************************************)
\* Values of the column IdCliente: blank, and two client ids.
IdClientes == { <<" ">>, <<"7">>, <<"8">> }

\* Values of the column Nome: None, and labels with one level, with several
\* levels, and with no level (a digit outside 1-4, a letter outside A-D, a tab
\* inside the token).
Nomes ==
    { NoneArg,
      StrArg(<<"A"," ","2","B">>),
      StrArg(<<"3","C","/","2","b">>),
      StrArg(<<"5","A","1","E","4","\t","A">>) }

\* Values of the column CriadoEm: missing, or one of two dates.
CriadoEms == {None, Some(1), Some(2)}

\* The rows a df_clientes is made of: every row for the blank id and for client
\* 7, and one row for client 8.
Rows ==
    [IdCliente : {<<" ">>, <<"7">>}, Nome : Nomes, CriadoEm : CriadoEms]
    \cup [IdCliente : {<<"8">>}, Nome : {StrArg(<<"A"," ","2","B">>)}, CriadoEm : {None}]

\* str(value or ""), for a value whose bool() does not raise.
StrOrEmpty(value) == IF Truthy(value) THEN value.text ELSE EmptyStr

\* SELECT nivel_atual FROM clients WHERE evo_id = ?, None when there is no row.
NivelAnterior(tbl, evo_id) ==
    IF evo_id \in DOMAIN tbl THEN tbl[evo_id].nivel_atual ELSE None

\* COALESCE(a, b)
Coalesce_excluded(a, b) == b

Coalesce(a, b) == IF a # None THEN a ELSE b

\* INSERT INTO clients ... ON CONFLICT(evo_id) DO UPDATE SET ...
Upsert_keep(tbl, evo_id, r) ==
    IF evo_id \in DOMAIN tbl
    THEN (evo_id :> [r EXCEPT !.nivel_atual = tbl[evo_id].nivel_atual,
                              !.nivel_ordem = tbl[evo_id].nivel_ordem,
                              !.criado_em = Coalesce(tbl[evo_id].criado_em, r.criado_em)])
         @@ tbl
    ELSE (evo_id :> r) @@ tbl

Upsert_only(tbl, evo_id, r) == evo_id :> r

Upsert(tbl, evo_id, r) ==
    IF evo_id \in DOMAIN tbl
    THEN (evo_id :> [r EXCEPT !.criado_em = Coalesce(tbl[evo_id].criado_em, r.criado_em)])
         @@ tbl
    ELSE (evo_id :> r) @@ tbl

\* if nivel and nivel != nivel_anterior
LevelChanged_always(nivel, nivel_anterior) == nivel # None

LevelChanged_any(nivel, nivel_anterior) == nivel # nivel_anterior

LevelChanged(nivel, nivel_anterior) == nivel # None /\ nivel # nivel_anterior

Init ==
    /\ DbIdle
    /\ NothingShown
    /\ SideIdle
    /\ NoSession
    /\ x_in = NoneArg
    /\ x_db = None
    /\ x_split = None

BeginSync_nodate ==
    /\ pc = "idle"
    /\ pc' = "loop"
    /\ hoje' = 0
    /\ UNCHANGED <<clients, level_history, last_id, last_synced, today>>
    /\ UNCHANGED xvars
    /\ UNCHANGED sidevars
    /\ UNCHANGED uivars
    /\ UNCHANGED authvars

\* Entry of sync_clients_from_df up to the loop.
BeginSync ==
    /\ pc = "idle"
    /\ pc' = "loop"
    /\ hoje' = today
    /\ UNCHANGED <<clients, level_history, last_id, last_synced, today>>
    /\ UNCHANGED xvars
    /\ UNCHANGED sidevars
    /\ UNCHANGED uivars
    /\ UNCHANGED authvars

\* One iteration of the loop, iterrows() yielding `row`.
ProcessRow(row) ==
    /\ pc = "loop"
    /\ Len(level_history) < MaxHist
    /\ LET evo_id == Strip(row.IdCliente)
           nome_bruto == Strip(StrOrEmpty(row.Nome))
           ext == _extract_nome_e_nivel(StrArg(nome_bruto))
           nivel == ext[2]
           nivel_ordem == DictGet(LEVEL_ORDER, nivel)
           nivel_anterior == NivelAnterior(clients, evo_id)
           r == [nome_bruto |-> nome_bruto, nome_limpo |-> ext[1],
                 criado_em |-> row.CriadoEm,
                 nivel_atual |-> nivel, nivel_ordem |-> nivel_ordem,
                 updated_at |-> hoje]
       IN  IF evo_id = EmptyStr
           THEN UNCHANGED <<clients, level_history, last_id, last_synced>>
           ELSE /\ last_synced' = (evo_id :> row) @@ last_synced
                /\ clients' = Upsert(clients, evo_id, r)
                /\ IF LevelChanged(nivel, nivel_anterior)
                   THEN /\ level_history' = Append(level_history,
                               [id |-> last_id + 1, evo_id |-> evo_id, data |-> hoje,
                                nivel |-> nivel, nivel_ordem |-> nivel_ordem,
                                origem |-> "sync_clientes"])
                        /\ last_id' = last_id + 1
                   ELSE UNCHANGED <<level_history, last_id>>
    /\ UNCHANGED <<pc, hoje, today>>
    /\ UNCHANGED xvars
    /\ UNCHANGED sidevars
    /\ UNCHANGED uivars
    /\ UNCHANGED authvars

\* iterrows() is exhausted: conn.commit(); conn.close(); return
EndSync ==
    /\ pc = "loop"
    /\ pc' = "idle"
    /\ hoje' = 0
    /\ UNCHANGED <<clients, level_history, last_id, last_synced, today>>
    /\ UNCHANGED xvars
    /\ UNCHANGED sidevars
    /\ UNCHANGED uivars
    /\ UNCHANGED authvars

\* Midnight passes.  A running sync reads the clock only at its start, so the
\* days that pass while it runs are taken after it.
NextDay ==
    /\ pc = "idle"
    /\ today < MaxDay
    /\ today' = today + 1
    /\ UNCHANGED <<clients, level_history, last_id, last_synced, pc, hoje>>
    /\ UNCHANGED xvars
    /\ UNCHANGED sidevars
    /\ UNCHANGED uivars
    /\ UNCHANGED authvars

Next ==
    \/ BeginSync
    \/ \E row \in Rows : ProcessRow(row)
    \/ EndSync
    \/ NextDay

Spec == Init /\ [][Next]_vars

(***************************************************************************)
(* Vocabulary of the properties.                                           *)
(***************************************************************************)
Digits14 == <<"1", "2", "3", "4">>
LettersAD == <<"A", "B", "C", "D">>

\* The 16 level codes.
Levels16 == {<<Digits14[i], LettersAD[j]>> : i \in 1..4, j \in 1..4}

PosIn(seq, ch) == CHOOSE i \in 1..Len(seq) : seq[i] = ch

\* The order 1A < 1B < ... < 4D: by digit, then by letter.
PairLess(a, b) ==
    \/ PosIn(Digits14, a[1]) < PosIn(Digits14, b[1])
    \/ a[1] = b[1] /\ PosIn(LettersAD, a[2]) < PosIn(LettersAD, b[2])

\* The rank digit * 10 + position of the letter (A = 0).
TensAndUnits(lvl) == 10 * PosIn(Digits14, lvl[1]) + PosIn(LettersAD, lvl[2]) - 1

\* The level tokens of a label: a digit 1-4, blanks, a letter A-D, upper-cased.
TokensOf(t) ==
    { <<Upper(t[i]), Upper(t[j])>> : <<i, j>> \in
        { p \in (1..Len(t)) \X (1..Len(t)) :
            /\ p[1] < p[2]
            /\ Upper(t[p[1]]) \in {"1", "2", "3", "4"}
            /\ Upper(t[p[2]]) \in {"A", "B", "C", "D"}
            /\ \A k \in (p[1] + 1)..(p[2] - 1) : t[k] = " " } }

\* The greatest token of a non-empty set of level codes.
Top(tokens) == CHOOSE a \in tokens : \A b \in tokens : ~PairLess(a, b)

\* The label has no digit 1-4 followed by whitespace and a letter A-D.
NoPattern(t) ==
    ~\E i, j \in 1..Len(t) :
        /\ i < j
        /\ Upper(t[i]) \in {"1", "2", "3", "4"}
        /\ Upper(t[j]) \in {"A", "B", "C", "D"}
        /\ \A k \in (i + 1)..(j - 1) : IsSpace(t[k])

\* The level that the sync derives from the Nome of a row.
LevelOfNome(nome) == _extract_nome_e_nivel(StrArg(Strip(StrOrEmpty(nome))))[2]

EvoOf(row) == Strip(row.IdCliente)

\* The level_history rows of one client, in id order.
HistoryOf(h, c) == SelectSeq(h, LAMBDA r : r.evo_id = c)

NoLevelNome == StrArg(<<"5","A","1","E","4","\t","A">>)

(***************************************************************************)
(* Properties of sync_clients_from_df (specification Spec).                *)
(***************************************************************************)

\* C1: when a sync processes a client whose previously synced name yields the
\* same level as the name of the row, the client's history rows are unchanged.
C1_Idempotent ==
    [][\A row \in Rows :
         LET c == EvoOf(row)
         IN  ( /\ ProcessRow(row)
               /\ c \in DOMAIN last_synced
               /\ LevelOfNome(last_synced[c].Nome) = LevelOfNome(row.Nome) )
             => HistoryOf(level_history', c) = HistoryOf(level_history, c)]_vars

\* A client with a level, synced again on day 2, whose only history row is the
\* one of day 1 with that level.
C1_Witness ==
    \E c \in DOMAIN clients :
        /\ clients[c].nivel_atual # None
        /\ clients[c].updated_at = 2
        /\ Len(HistoryOf(level_history, c)) = 1
        /\ HistoryOf(level_history, c)[1].data = 1
        /\ HistoryOf(level_history, c)[1].nivel = clients[c].nivel_atual

\* C2: no client has two consecutive level_history rows with the same level.
C2_NoRepeatedLevel ==
    \A c \in DOMAIN clients :
        LET h == HistoryOf(level_history, c)
        IN  \A i \in 1..(Len(h) - 1) : h[i].nivel # h[i + 1].nivel

\* C3: a row whose level L is not empty and differs from the stored nivel_atual
\* (or whose client is new) appends exactly one history row, with nivel L and
\* nivel_ordem rank(L), and leaves nivel_atual = L, nivel_ordem = rank(L).
C3_TransitionRecorded ==
    [][\A row \in Rows :
         LET c == EvoOf(row)
             L == LevelOfNome(row.Nome)
         IN  ( /\ ProcessRow(row)
               /\ c # EmptyStr
               /\ L # None
               /\ L # NivelAnterior(clients, c) )
             => /\ Len(level_history') = Len(level_history) + 1
                /\ SubSeq(level_history', 1, Len(level_history)) = level_history
                /\ level_history'[Len(level_history')].evo_id = c
                /\ level_history'[Len(level_history')].nivel = L
                /\ level_history'[Len(level_history')].nivel_ordem
                       = Some(TensAndUnits(L[1]))
                /\ clients'[c].nivel_atual = L
                /\ clients'[c].nivel_ordem = Some(TensAndUnits(L[1]))]_vars

\* A client with two history rows of different levels, the later one being its
\* current level.
C3_Witness ==
    \E c \in DOMAIN clients :
        LET h == HistoryOf(level_history, c)
        IN  /\ Len(h) = 2
            /\ h[1].nivel # h[2].nivel
            /\ h[2].nivel = clients[c].nivel_atual
            /\ h[2].nivel_ordem = clients[c].nivel_ordem

\* C4: a row whose name yields no level adds no level_history row.
C4_NoLevelNoHistory ==
    [][\A row \in Rows :
         (ProcessRow(row) /\ LevelOfNome(row.Nome) = None)
             => level_history' = level_history]_vars

\* A client that had a level, was then synced with a name without level, and
\* still has the single history row of before.
C4_Witness ==
    \E c \in DOMAIN clients :
        /\ last_synced[c].Nome = NoLevelNome
        /\ clients[c].nivel_atual = None
        /\ Len(HistoryOf(level_history, c)) = 1
        /\ Len(level_history) = 1

\* C5 as stated: no step changes the criado_em of an existing client row.
C5_CriadoEmNeverChanges ==
    [][\A c \in DOMAIN clients :
         c \in DOMAIN clients' /\ clients'[c].criado_em = clients[c].criado_em]_vars

\* C5 amended: a non-NULL criado_em is never changed; a NULL criado_em takes the
\* CriadoEm of the next row synced for the client.
C5_CriadoEmFirstNonNull ==
    [][/\ \A c \in DOMAIN clients :
            /\ c \in DOMAIN clients'
            /\ clients[c].criado_em # None
                   => clients'[c].criado_em = clients[c].criado_em
       /\ \A row \in Rows :
            (ProcessRow(row) /\ EvoOf(row) \in DOMAIN clients
                             /\ clients[EvoOf(row)].criado_em = None)
                => clients'[EvoOf(row)].criado_em = row.CriadoEm]_vars

\* A client created on date 1 whose last synced row carried date 2.
C5_Witness ==
    \E c \in DOMAIN clients :
        /\ clients[c].criado_em = Some(1)
        /\ last_synced[c].CriadoEm = Some(2)

\* C6: nome_bruto, nome_limpo, nivel_atual and nivel_ordem of every client are
\* the values derived from the last row synced for it.
C6_LastWriteWins ==
    \A c \in DOMAIN clients :
        /\ c \in DOMAIN last_synced
        /\ LET nb == Strip(StrOrEmpty(last_synced[c].Nome))
               e == _extract_nome_e_nivel(StrArg(nb))
           IN  /\ clients[c].nome_bruto = nb
               /\ clients[c].nome_limpo = e[1]
               /\ clients[c].nivel_atual = e[2]
               /\ clients[c].nivel_ordem
                      = (IF e[2] = None THEN None ELSE Some(TensAndUnits(e[2][1])))

\* A client that has a history row and whose level is NULL again, its last name
\* carrying no level.
C6_Witness ==
    \E c \in DOMAIN clients :
        /\ HistoryOf(level_history, c) # <<>>
        /\ clients[c].nome_bruto = NoLevelNome.text
        /\ clients[c].nivel_atual = None
        /\ clients[c].nivel_ordem = None

\* C9: nivel_atual is NULL or one of the 16 codes, and every level_history row
\* holds one of the 16 codes.
C9_OnlySixteenCodes ==
    /\ \A c \in DOMAIN clients :
           clients[c].nivel_atual = None \/ clients[c].nivel_atual[1] \in Levels16
    /\ \A i \in 1..Len(level_history) :
           /\ level_history[i].nivel # None
           /\ level_history[i].nivel[1] \in Levels16

\* A new client synced with a label holding 5A, 1E and a tabbed 4 A: no level,
\* no history row.
C9_Witness ==
    \E c \in DOMAIN clients :
        /\ last_synced[c].Nome = NoLevelNome
        /\ clients[c].nivel_atual = None
        /\ HistoryOf(level_history, c) = <<>>

(***************************************************************************)
(* Properties of the extractors (specification SpecExtract).               *)
(***************************************************************************)

\* C7: for a label with several level tokens both extractors return the
\* greatest token in the order 1A < ... < 4D, and both rank tables increase
\* strictly with (digit, letter).
C7_HighestToken ==
    /\ \A d, e, i, j \in 1..4 :
           LET a == <<Digits14[d], LettersAD[i]>>
               b == <<Digits14[e], LettersAD[j]>>
               less == d < e \/ (d = e /\ i < j)
           IN  /\ less <=> LEVEL_ORDER[a] < LEVEL_ORDER[b]
               /\ less <=> LEVEL_ORDER_MAP[a] < LEVEL_ORDER_MAP[b]
    /\ (x_in.kind = "str" /\ Cardinality(TokensOf(x_in.text)) >= 2)
           => /\ x_db # None => x_db[1][2] = Some(Top(TokensOf(x_in.text)))
              /\ x_split # None => x_split[1][2] = Some(Top(TokensOf(x_in.text)))

\* The label 2A3C1D, for which both extractors returned 3C.
C7_Witness ==
    /\ x_in = StrArg(<<"2","A","3","C","1","D">>)
    /\ x_db # None /\ x_db[1][2] = Some(<<"3","C">>)
    /\ x_split # None /\ x_split[1][2] = Some(<<"3","C">>)

\* An argument for which C8 announces the result "no level".
NoLevelInput(x) == x.kind \in {"none", "obj"} \/ NoPattern(x.text)

\* C8 as stated: None, a non-string value, and a string without level pattern
\* give level None (and rank None) with both extractors, which never raise.
C8_NoLevelForAnyMalformed ==
    /\ (x_db # None /\ NoLevelInput(x_in)) => x_db[1][2] = None
    /\ (x_split # None /\ NoLevelInput(x_in))
           => /\ x_split[1] # TypeError
              /\ x_split[1][2] = None /\ x_split[1][3] = None

\* C8 amended: as stated for None and for strings; for a non-string value
\* _extract_nome_e_nivel gives the empty result, and split_nome_e_nivel raises
\* when bool(value) raises, gives the empty result when the value is falsy, and
\* otherwise gives "no level" when str(value) holds no level pattern.
C8_NoLevelForMalformed ==
    /\ (x_db # None /\ NoLevelInput(x_in)) => x_db[1][2] = None
    /\ (x_db # None /\ x_in.kind # "str") => x_db[1] = <<EmptyStr, None>>
    /\ x_split # None =>
          /\ x_split[1] = TypeError <=> (x_in.kind = "obj" /\ x_in.truth = "raises")
          /\ (x_in.kind = "none" \/ (x_in.kind = "obj" /\ x_in.truth = "false"))
                 => x_split[1] = <<EmptyStr, None, None>>
          /\ (x_split[1] # TypeError /\ NoPattern(x_in.text))
                 => (x_split[1][2] = None /\ x_split[1][3] = None)

\* A falsy non-string value whose str() holds a level token: both extractors
\* returned the empty result.
C8_Witness ==
    /\ x_in.kind = "obj" /\ x_in.truth = "false" /\ ~NoPattern(x_in.text)
    /\ x_db = Some(<<EmptyStr, None>>)
    /\ x_split = Some(<<EmptyStr, None, None>>)

\* C10 as stated: the rank of a detected level is its 0-based index in the
\* 16-code order.
C10_RankIsIndex ==
    /\ (x_split # None /\ x_split[1] # TypeError /\ x_split[1][2] # None)
           => x_split[1][3] = Some(LEVEL_INDEX(x_split[1][2][1]))
    /\ (x_db # None /\ x_db[1][2] # None)
           => DictGet(LEVEL_ORDER, x_db[1][2]) = Some(LEVEL_INDEX(x_db[1][2][1]))

\* C10 amended: the rank is digit * 10 + position of the letter (1A = 10,
\* 3C = 32, 4D = 43), which orders the levels as their 0-based index does.
C10_RankIsTensAndUnits ==
    /\ (x_split # None /\ x_split[1] # TypeError /\ x_split[1][2] # None)
           => x_split[1][3] = Some(TensAndUnits(x_split[1][2][1]))
    /\ (x_db # None /\ x_db[1][2] # None)
           => DictGet(LEVEL_ORDER, x_db[1][2]) = Some(TensAndUnits(x_db[1][2][1]))
    /\ \A i, j \in 1..Len(LEVELS) :
           /\ LEVEL_INDEX(LEVELS[i]) = i - 1
           /\ i < j <=> LEVEL_ORDER[LEVELS[i]] < LEVEL_ORDER[LEVELS[j]]

\* 'João Paulo 3C': level 3C, rank 32.
C10_Witness ==
    /\ x_in = StrArg(<<"J","o","ã","o"," ","P","a","u","l","o"," ","3","C">>)
    /\ x_split # None /\ x_split[1][2] = Some(<<"3","C">>) /\ x_split[1][3] = Some(32)
    /\ x_db # None /\ DictGet(LEVEL_ORDER, x_db[1][2]) = Some(32)

\* The level tokens of a label when any whitespace may separate the digit from
\* the letter.
TokensWs(t) ==
    { <<Upper(t[i]), Upper(t[j])>> : <<i, j>> \in
        { p \in (1..Len(t)) \X (1..Len(t)) :
            /\ p[1] < p[2]
            /\ Upper(t[p[1]]) \in {"1", "2", "3", "4"}
            /\ Upper(t[p[2]]) \in {"A", "B", "C", "D"}
            /\ \A k \in (p[1] + 1)..(p[2] - 1) : IsSpace(t[k]) } }

\* C11: every occurrence in the label of a digit 1-4, whitespace and a letter
\* A-D, whatever surrounds it, is a candidate once its whitespace is removed:
\* the level returned for a label with such occurrences is the greatest of them.
C11_EveryOccurrenceCounts ==
    (x_in.kind = "str" /\ TokensWs(x_in.text) # {})
        => /\ x_db # None => x_db[1][2] = Some(Top(TokensWs(x_in.text)))
           /\ x_split # None => x_split[1][2] = Some(Top(TokensWs(x_in.text)))

MaxBatch == 2      \* rows of a df_clientes handed to one click

\* The rows the df_clientes of a click are made of: a row without id, client 7
\* with one level, with two levels and with none, and client 8.
BatchRows ==
    [IdCliente : {<<"7">>}, CriadoEm : {None},
     Nome : {StrArg(<<"A"," ","2","B">>), StrArg(<<"3","C","/","2","b">>),
             StrArg(<<"5","A","1","E","4","\t","A">>)}]
    \cup [IdCliente : {<<" ">>, <<"8">>}, CriadoEm : {None},
          Nome : {StrArg(<<"A"," ","2","B">>)}]

RECURSIVE SeqsUpTo(_, _)
SeqsUpTo(S, n) ==
    IF n = 0 THEN {<<>>}
    ELSE LET shorter == SeqsUpTo(S, n - 1)
         IN  shorter \cup {Append(q, e) : q \in shorter, e \in S}

\* The data frames of a click: one to MaxBatch rows.
Batches == SeqsUpTo(BatchRows, MaxBatch) \ {<<>>}

\* The tables as the connection of the running sync sees them, with the local
\* counter `processed`.
Tables(c, h, n, p) == [clients |-> c, level_history |-> h, last_id |-> n, processed |-> p]

\* The body of the loop for one row, on the connection's view of the tables.
SyncRow(db, row, hj) ==
    LET evo_id == Strip(row.IdCliente)
        nome_bruto == Strip(StrOrEmpty(row.Nome))
        ext == _extract_nome_e_nivel(StrArg(nome_bruto))
        nivel == ext[2]
        nivel_ordem == DictGet(LEVEL_ORDER, nivel)
        nivel_anterior == NivelAnterior(db.clients, evo_id)
        r == [nome_bruto |-> nome_bruto, nome_limpo |-> ext[1],
              criado_em |-> row.CriadoEm,
              nivel_atual |-> nivel, nivel_ordem |-> nivel_ordem,
              updated_at |-> hj]
    IN  IF evo_id = EmptyStr THEN db
        ELSE Tables(Upsert(db.clients, evo_id, r),
                    IF LevelChanged(nivel, nivel_anterior)
                    THEN Append(db.level_history,
                                [id |-> db.last_id + 1, evo_id |-> evo_id, data |-> hj,
                                 nivel |-> nivel, nivel_ordem |-> nivel_ordem,
                                 origem |-> "sync_clientes"])
                    ELSE db.level_history,
                    IF LevelChanged(nivel, nivel_anterior)
                    THEN db.last_id + 1 ELSE db.last_id,
                    db.processed + 1)

\* for _, row in df_clientes.iterrows(): ...
RECURSIVE SyncRows(_, _, _)
SyncRows(db, df, hj) ==
    IF df = <<>> THEN db ELSE SyncRows(SyncRow(db, Head(df), hj), Tail(df), hj)

\* What the handler shows: st.success with the number of clients processed, or
\* st.error.
Success(n) == <<"success", n>>
Failed == <<"error">>

SyncButton_partial(df, fail_at) ==
    /\ pc = "idle"
    /\ Len(level_history) + Len(df) <= MaxHist
    /\ LET upto == IF fail_at = 0 THEN df ELSE SubSeq(df, 1, fail_at - 1)
           done == SyncRows(Tables(clients, level_history, last_id, 0), upto, today)
       IN  /\ clients' = done.clients
           /\ level_history' = done.level_history
           /\ last_id' = done.last_id
           /\ sync_msg' = Some(IF fail_at = 0 THEN Success(done.processed) ELSE Failed)
    /\ UNCHANGED <<last_synced, pc, hoje, today, df_changes, df_hist>>
    /\ UNCHANGED authvars
    /\ UNCHANGED xvars
    /\ UNCHANGED sidevars

\* One click with the data frame df.  fail_at = 0: no statement fails;
\* fail_at = k: the database raises while row k is processed.
SyncButton(df, fail_at) ==
    /\ pc = "idle"
    /\ Len(level_history) + Len(df) <= MaxHist
    /\ IF fail_at = 0
       THEN LET done == SyncRows(Tables(clients, level_history, last_id, 0), df, today)
            IN  /\ clients' = done.clients
                /\ level_history' = done.level_history
                /\ last_id' = done.last_id
                /\ sync_msg' = Some(Success(done.processed))
       ELSE /\ UNCHANGED <<clients, level_history, last_id>>
            /\ sync_msg' = Some(Failed)
    /\ UNCHANGED <<last_synced, pc, hoje, today, df_changes, df_hist>>
    /\ UNCHANGED authvars
    /\ UNCHANGED xvars
    /\ UNCHANGED sidevars

NextBatch ==
    \/ \E df \in Batches : \E fail_at \in 0..Len(df) : SyncButton(df, fail_at)
    \/ NextDay

SpecBatch == Init /\ [][NextBatch]_vars

(***************************************************************************)
(* Properties of the sync button (specification SpecBatch).                *)
(***************************************************************************)

\* df without its row k.
WithoutRow(df, k) == SubSeq(df, 1, k - 1) \o SubSeq(df, k + 1, Len(df))

\* C13: an error while one row of the batch is processed does not abort the
\* batch: after the click the tables hold what the other rows of the data frame
\* write.
C13_BatchSurvivesRowError ==
    [][\A df \in Batches : \A k \in 1..Len(df) :
         SyncButton(df, k)
             => LET done == SyncRows(Tables(clients, level_history, last_id, 0),
                                     WithoutRow(df, k), today)
                IN  /\ clients' = done.clients
                    /\ level_history' = done.level_history]_vars

(***************************************************************************)
(* pages/3_Evolucao_de_Nivel.py: the log of the level changes of the last  *)
(* days and the history of one client.  Both read the tables and write     *)
(* nothing.  A date is the number of its day, day 1 being 2025-11-15; the  *)
(* ISO strings the code compares are ordered as these numbers.             *)
(***************************************************************************)
dias == 10                    \* dias = 10
ZERO_ACTIVATION_DATE == 3     \* "2025-11-17"

\* Lexicographic order of two tuples of integers of the same length.
LexLess(a, b) ==
    \E k \in 1..Len(a) : a[k] < b[k] /\ \A j \in 1..(k - 1) : a[j] = b[j]

\* The indices I of keys in ascending order of key, equal keys in ascending
\* order of index: ORDER BY of SQLite on a unique key, DataFrame.sort_values.
RECURSIVE SortIdx(_, _)
SortIdx(I, keys) ==
    IF I = {} THEN <<>>
    ELSE LET m == CHOOSE i \in I : \A j \in I \ {i} :
                      LexLess(keys[i], keys[j]) \/ (keys[i] = keys[j] /\ i < j)
         IN  <<m>> \o SortIdx(I \ {m}, keys)

SortedBy(rows, keys) ==
    LET idx == SortIdx(1..Len(rows), keys) IN [i \in 1..Len(rows) |-> rows[idx[i]]]

\* The order of the TEXT values of evo_id.
EvoRank(e) == CHOOSE i \in 1..2 : << <<"7">>, <<"8">> >>[i] = e

\* SELECT lh.*, c.nome_limpo FROM level_history AS lh LEFT JOIN clients AS c
\* ON c.evo_id = lh.evo_id ORDER BY lh.evo_id, lh.data, lh.id, then
\* sort_values(["evo_id", "data_dt", "id"]).
AllByClient_id(h, c) ==
    SortedBy([i \in 1..Len(h) |->
                 [id |-> h[i].id, data |-> h[i].data, nivel |-> h[i].nivel,
                  nivel_ordem |-> h[i].nivel_ordem, origem |-> h[i].origem,
                  evo_id |-> h[i].evo_id,
                  nome_limpo |-> IF h[i].evo_id \in DOMAIN c
                                 THEN Some(c[h[i].evo_id].nome_limpo) ELSE None]],
             [i \in 1..Len(h) |-> <<EvoRank(h[i].evo_id), h[i].id>>])

AllByClient(h, c) ==
    SortedBy([i \in 1..Len(h) |->
                 [id |-> h[i].id, data |-> h[i].data, nivel |-> h[i].nivel,
                  nivel_ordem |-> h[i].nivel_ordem, origem |-> h[i].origem,
                  evo_id |-> h[i].evo_id,
                  nome_limpo |-> IF h[i].evo_id \in DOMAIN c
                                 THEN Some(c[h[i].evo_id].nome_limpo) ELSE None]],
             [i \in 1..Len(h) |-> <<EvoRank(h[i].evo_id), h[i].data, h[i].id>>])

\* df_all.groupby("evo_id")["nivel"].shift(1), for row i of df_all.
NivelPrev(df_all, i) ==
    IF i > 1 /\ df_all[i - 1].evo_id = df_all[i].evo_id THEN df_all[i - 1].nivel ELSE None

\* mask_mudanca_normal
MudancaNormal(nivel, nivel_prev) == nivel_prev # None /\ nivel # nivel_prev

DeZeroParaNivel_always(nivel, nivel_prev, data) == nivel_prev = None /\ nivel # None

\* mask_de_zero_para_nivel
DeZeroParaNivel(nivel, nivel_prev, data) ==
    nivel_prev = None /\ nivel # None /\ data >= ZERO_ACTIVATION_DATE

\* df_all with the columns nivel_prev and is_change.
WithChanges(df_all) ==
    [i \in 1..Len(df_all) |->
        [id |-> df_all[i].id, data |-> df_all[i].data, nivel |-> df_all[i].nivel,
         origem |-> df_all[i].origem, evo_id |-> df_all[i].evo_id,
         nome_limpo |-> df_all[i].nome_limpo,
         nivel_prev |-> NivelPrev(df_all, i),
         is_change |-> \/ MudancaNormal(df_all[i].nivel, NivelPrev(df_all, i))
                       \/ DeZeroParaNivel(df_all[i].nivel, NivelPrev(df_all, i),
                                          df_all[i].data)]]

\* df_all[df_all["is_change"] & (df_all["data"] >= cutoff)], then
\* sort_values(["data_dt", "evo_id"], ascending=[False, True]).
Changes(h, c, cutoff) ==
    LET kept == SelectSeq(WithChanges(AllByClient(h, c)),
                          LAMBDA r : r.is_change /\ r.data >= cutoff)
    IN  SortedBy(kept, [i \in 1..Len(kept) |-> <<0 - kept[i].data, EvoRank(kept[i].evo_id)>>])

\* What the script leaves of the log: the rows shown, or the NameError raised.
Shown(rows) == [error |-> "", rows |-> rows]
NameError == [error |-> "NameError", rows |-> <<>>]

HistQuery_desc(h, sel) ==
    LET mine == SelectSeq(h, LAMBDA r : r.evo_id = sel)
    IN  SortedBy([i \in 1..Len(mine) |->
                     [data |-> mine[i].data, nivel |-> mine[i].nivel,
                      nivel_ordem |-> mine[i].nivel_ordem, origem |-> mine[i].origem,
                      created_at |-> mine[i].id]],
                 [i \in 1..Len(mine) |-> <<0 - mine[i].data, mine[i].id>>])

\* SELECT data, nivel, nivel_ordem, origem, created_at FROM level_history
\* WHERE evo_id = ? ORDER BY data, id.  The id of a row stands for its
\* created_at: both grow in the order in which the rows were recorded.
HistQuery(h, sel) ==
    LET mine == SelectSeq(h, LAMBDA r : r.evo_id = sel)
    IN  SortedBy([i \in 1..Len(mine) |->
                     [data |-> mine[i].data, nivel |-> mine[i].nivel,
                      nivel_ordem |-> mine[i].nivel_ordem, origem |-> mine[i].origem,
                      created_at |-> mine[i].id]],
                 [i \in 1..Len(mine) |-> <<mine[i].data, mine[i].id>>])

MaxLogRows == 2    \* rows of level_history when page 3 is opened

\* The dates of the history rows: the day before ZERO_ACTIVATION_DATE, that
\* day and the day after.
LogDates == (ZERO_ACTIVATION_DATE - 1)..(ZERO_ACTIVATION_DATE + 1)

\* The days on which page 3 is opened: those whose cutoff is one of LogDates or
\* the day after them.
ViewDays == (ZERO_ACTIVATION_DATE - 1 + dias)..(ZERO_ACTIVATION_DATE + 2 + dias)

\* What a sync inserts into level_history, but for the id.
LogEntries ==
    [evo_id : {<<"7">>, <<"8">>}, data : LogDates,
     nivel : {Some(<<"2","B">>), Some(<<"3","C">>)}]

\* A level_history table: the entries q with the ids AUTOINCREMENT gave them.
\* The dates follow the clock of the host and so need not grow with the ids.
LogTable(q) ==
    [i \in 1..Len(q) |->
        [id |-> i, evo_id |-> q[i].evo_id, data |-> q[i].data, nivel |-> q[i].nivel,
         nivel_ordem |-> DictGet(LEVEL_ORDER, q[i].nivel), origem |-> "sync_clientes"]]

\* The clients table that goes with the history h: a client is named 'A' with
\* the level of its last history row, or plain 'A' when a later sync found its
\* name without level (the clients of the set cleared).
LogClients(h, cleared) ==
    [c \in {h[i].evo_id : i \in 1..Len(h)} |->
        LET mine == SelectSeq(h, LAMBDA r : r.evo_id = c)
            nivel == IF c \in cleared THEN None ELSE mine[Len(mine)].nivel
            nome == IF c \in cleared THEN <<"A">> ELSE <<"A", " ">> \o nivel[1]
        IN  [nome_bruto |-> nome, nome_limpo |-> nome, criado_em |-> None,
             nivel_atual |-> nivel, nivel_ordem |-> DictGet(LEVEL_ORDER, nivel),
             updated_at |-> ZERO_ACTIVATION_DATE + 1]]

\* A clients table with one client, which never had a level.
NoLevelOnly ==
    <<"7">> :> [nome_bruto |-> <<"A">>, nome_limpo |-> <<"A">>, criado_em |-> None,
                nivel_atual |-> None, nivel_ordem |-> None,
                updated_at |-> ZERO_ACTIVATION_DATE + 1]

\* The state in which page 3 is opened: some syncs have run, none is running.
InitLog ==
    /\ \E q \in SeqsUpTo(LogEntries, MaxLogRows) :
         /\ level_history = LogTable(q)
         /\ last_id = Len(q)
         /\ \E cleared \in SUBSET {q[i].evo_id : i \in 1..Len(q)} :
            \E others \in (IF q = <<>> THEN {<<>>, NoLevelOnly} ELSE {<<>>}) :
                clients = LogClients(LogTable(q), cleared) @@ others
    /\ last_synced = <<>>
    /\ pc = "idle"
    /\ hoje = 0
    /\ today \in ViewDays
    /\ x_in = NoneArg
    /\ x_db = None
    /\ x_split = None
    /\ NothingShown
    /\ SideIdle
    /\ NoSession

\* The script of page 3 down to the log of changes.  Without clients it stops
\* (st.stop()) before the log.  With an empty level_history, df_changes is
\* never assigned and the second `if df_changes.empty` raises NameError.
RenderLog ==
    /\ pc = "idle"
    /\ df_changes = None
    /\ clients # <<>>
    /\ df_changes' = Some(IF level_history = <<>> THEN NameError
                          ELSE Shown(Changes(level_history, clients, today - dias)))
    /\ UNCHANGED <<sync_msg, df_hist>>
    /\ UNCHANGED authvars
    /\ UNCHANGED dbvars
    /\ UNCHANGED xvars
    /\ UNCHANGED sidevars

\* The tab "Por cliente", the select box resolving to the client sel.
QueryHistory(sel) ==
    /\ df_changes # None
    /\ df_changes # Some(NameError)
    /\ df_hist = None
    /\ sel \in DOMAIN clients
    /\ df_hist' = Some([evo_id |-> sel, rows |-> HistQuery(level_history, sel)])
    /\ UNCHANGED <<sync_msg, df_changes>>
    /\ UNCHANGED authvars
    /\ UNCHANGED dbvars
    /\ UNCHANGED xvars
    /\ UNCHANGED sidevars

NextLog ==
    \/ RenderLog
    \/ \E sel \in {<<"7">>, <<"8">>} : QueryHistory(sel)

SpecLog == InitLog /\ [][NextLog]_vars

(***************************************************************************)
(* Properties of page 3 (specification SpecLog).                           *)
(***************************************************************************)

\* Row a of level_history comes before row b in (date, id) order.
EntryBefore(a, b) == a.data < b.data \/ (a.data = b.data /\ a.id < b.id)

\* The history rows of client c, as a set.
EntriesOf(c) ==
    {level_history[i] : i \in {k \in 1..Len(level_history) : level_history[k].evo_id = c}}

\* r is the first history entry of its client.
IsFirstEntry(r) == \A o \in EntriesOf(r.evo_id) : ~EntryBefore(o, r)

\* p is the entry that immediately precedes r in the history of r's client.
IsPreceding(p, r) ==
    /\ p \in EntriesOf(r.evo_id)
    /\ EntryBefore(p, r)
    /\ \A o \in EntriesOf(r.evo_id) : ~(EntryBefore(p, o) /\ EntryBefore(o, r))

\* The log was rendered without error.
LogShown == df_changes # None /\ df_changes[1].error = ""

\* The history entry r is one of the rows of the log.
InLog(r) == \E i \in 1..Len(df_changes[1].rows) : df_changes[1].rows[i].id = r.id

\* C14: a client whose only history entry is dated before the activation date
\* has no row in the changes log, whatever the cutoff; and a first entry is in
\* the log (as a change from no level) only when its date is on or after the
\* activation date.
C14_BaselineBeforeActivation ==
    LogShown =>
        /\ \A c \in DOMAIN clients :
               (\E r \in EntriesOf(c) :
                    EntriesOf(c) = {r} /\ r.data < ZERO_ACTIVATION_DATE)
                   => \A i \in 1..Len(df_changes[1].rows) :
                          df_changes[1].rows[i].evo_id # c
        /\ \A i \in 1..Len(level_history) :
               (IsFirstEntry(level_history[i]) /\ InLog(level_history[i]))
                   => level_history[i].data >= ZERO_ACTIVATION_DATE
        /\ \A i \in 1..Len(df_changes[1].rows) :
               df_changes[1].rows[i].nivel_prev = None
                   => df_changes[1].rows[i].data >= ZERO_ACTIVATION_DATE

\* The log shown on a day whose cutoff lets the entry through, for a table in
\* which client 7 has a single entry, dated the day before the activation date,
\* and client 8 an entry that is shown.
C14_Witness ==
    /\ LogShown
    /\ \E r \in EntriesOf(<<"7">>) :
           /\ EntriesOf(<<"7">>) = {r}
           /\ r.data = ZERO_ACTIVATION_DATE - 1
           /\ r.data >= today - dias
    /\ Len(df_changes[1].rows) = 1
    /\ df_changes[1].rows[1].evo_id = <<"8">>

\* C15: a history entry that is not the first of its client is in the changes
\* log if and only if its date is on or after the cutoff and its level differs
\* from the level of the entry that precedes it in (date, id) order; the log
\* shows that level as the previous one.  nivel_atual takes no part.
C15_ComparedWithPreceding ==
    LogShown =>
        \A i, j \in 1..Len(level_history) :
            LET r == level_history[i]
                p == level_history[j]
            IN  IsPreceding(p, r)
                    => /\ InLog(r) <=> (r.data >= today - dias /\ r.nivel # p.nivel)
                       /\ \A k \in 1..Len(df_changes[1].rows) :
                              df_changes[1].rows[k].id = r.id
                                  => df_changes[1].rows[k].nivel_prev = p.nivel

\* A client whose stored level is NULL and whose second entry, 3C after 2B, is
\* shown in the log with 2B as the previous level.
C15_Witness ==
    /\ LogShown
    /\ \E c \in DOMAIN clients :
           /\ clients[c].nivel_atual = None
           /\ \E k \in 1..Len(df_changes[1].rows) :
                  /\ df_changes[1].rows[k].evo_id = c
                  /\ df_changes[1].rows[k].nivel = Some(<<"3","C">>)
                  /\ df_changes[1].rows[k].nivel_prev = Some(<<"2","B">>)

\* C19: the history shown for the selected client holds every level_history
\* row of that client, once each, in non-decreasing order of date, rows of the
\* same date in the order in which they were recorded.
C19_HistoryOrdered ==
    df_hist # None =>
        LET rows == df_hist[1].rows
            mine == EntriesOf(df_hist[1].evo_id)
        IN  /\ Len(rows) = Cardinality(mine)
            /\ \A r \in mine : \E i \in 1..Len(rows) :
                   /\ rows[i].created_at = r.id
                   /\ rows[i].data = r.data
                   /\ rows[i].nivel = r.nivel
                   /\ rows[i].nivel_ordem = r.nivel_ordem
            /\ \A i, j \in 1..Len(rows) :
                   i < j => \/ rows[i].data < rows[j].data
                            \/ /\ rows[i].data = rows[j].data
                               /\ rows[i].created_at < rows[j].created_at

\* The history of client 7 shown with its two rows, both of the same date, in
\* the order in which they were recorded.
C19_Witness ==
    /\ df_hist # None
    /\ df_hist[1].evo_id = <<"7">>
    /\ Len(df_hist[1].rows) = 2
    /\ df_hist[1].rows[1].data = df_hist[1].rows[2].data
    /\ df_hist[1].rows[1].created_at < df_hist[1].rows[2].created_at

(***************************************************************************)
(* Further properties of sync_clients_from_df (specification Spec).        *)
(***************************************************************************)

\* C16: no step of a sync changes or removes a level_history row or removes a
\* client: the history before the step is a prefix of the history after it, the
\* rows added have greater ids, and every client is still there.
C16_AppendOnly ==
    [][/\ Len(level_history') >= Len(level_history)
       /\ SubSeq(level_history', 1, Len(level_history)) = level_history
       /\ \A i \in (Len(level_history) + 1)..Len(level_history') :
              \A j \in 1..Len(level_history) :
                  level_history'[i].id > level_history[j].id
       /\ \A c \in DOMAIN clients : c \in DOMAIN clients']_vars

\* Two clients, and a history row of day 2 recorded after a row of day 1.
C16_Witness ==
    /\ Cardinality(DOMAIN clients) = 2
    /\ \E i, j \in 1..Len(level_history) :
           /\ i < j
           /\ level_history[i].data = 1
           /\ level_history[j].data = 2
           /\ level_history[i].evo_id # level_history[j].evo_id

\* The date of the most recent class each client attended, as the schedule of
\* the EVO API reports it (fetch_member_activities_history): client 7 attended
\* on day 1, client 8 never did.
UltimaAula == (<<"7">> :> Some(1)) @@ (<<"8">> :> None)

\* C17 as stated: a history row written by the sync carries the date of the
\* client's most recent attended class when there is one, else today's date.
C17_SessionDateOrToday ==
    [][Len(level_history') > Len(level_history)
          => LET r == level_history'[Len(level_history')]
             IN  r.data = (IF UltimaAula[r.evo_id] # None
                           THEN UltimaAula[r.evo_id][1] ELSE today)]_vars

\* C17 amended: a history row written by the sync carries the date read by
\* date.today() when that sync started, whatever classes the client attended;
\* the date is never missing.
C17_DateIsSyncDay ==
    [][Len(level_history') > Len(level_history)
          => LET r == level_history'[Len(level_history')]
             IN  /\ r.data = hoje
                 /\ hoje >= 1
                 /\ hoje <= today]_vars

\* A history row of day 2 for client 7, whose last class was on day 1.
C17_Witness ==
    \E i \in 1..Len(level_history) :
        /\ level_history[i].evo_id = <<"7">>
        /\ level_history[i].data = 2
        /\ UltimaAula[<<"7">>] = Some(1)

(***************************************************************************)
(* Further properties of the extractors (specification SpecExtract).       *)
(***************************************************************************)

\* r is t without its leading and trailing whitespace, nothing else removed.
IsTrimOf(r, t) ==
    \E i \in 1..(Len(t) + 1) : \E j \in 0..Len(t) :
        /\ r = SubSeq(t, i, j)
        /\ \A k \in 1..(i - 1) : IsSpace(t[k])
        /\ \A k \in (j + 1)..Len(t) : IsSpace(t[k])
        /\ r # <<>> => (~IsSpace(r[1]) /\ ~IsSpace(r[Len(r)]))

\* C18: the nome_limpo that _extract_nome_e_nivel returns for a string is the
\* string with only its leading and trailing whitespace removed, with a level
\* or without.
C18_CleanLabelIsTrimmed ==
    (x_db # None /\ x_in.kind = "str") => IsTrimOf(x_db[1][1], x_in.text)

\* The label ' 2 B ': level 2B, nome_limpo '2 B'.
C18_Witness ==
    /\ x_in = StrArg(<<" ","2"," ","B"," ">>)
    /\ x_db = Some(<<(<<"2"," ","B">>), Some(<<"2","B">>)>>)

\* C20: when split_nome_e_nivel detects a level, the nome_limpo it returns
\* holds none of the matched codes any more: the extractor finds no level in it.
C20_CleanNameHasNoLevel ==
    (x_split # None /\ x_split[1] # TypeError /\ x_split[1][2] # None)
        => split_nome_e_nivel(StrArg(x_split[1][1]))[2] = None

(***************************************************************************)
(* db.py: the daily snapshot of the number of clients.                     *)
(* _ensure_daily_clients_table creates the table when it is absent: an     *)
(* absent table and an empty one are both the empty sequence here.  ISO    *)
(* dates compare as the day numbers do.                                    *)
(***************************************************************************)
MaxTotal == 9

Totals == 0..MaxTotal

DailyRow(data, total_clientes, novos_clientes) ==
    [data |-> data, total_clientes |-> total_clientes,
     novos_clientes |-> novos_clientes]

\* SELECT data, total_clientes ... WHERE data < ? ORDER BY data DESC LIMIT 1
LastSnapshot(dc, hj) ==
    LET earlier == {i \in 1..Len(dc) : dc[i].data < hj}
    IN  IF earlier = {} THEN None
        ELSE Some(dc[CHOOSE i \in earlier :
                        \A j \in earlier : dc[j].data <= dc[i].data])

Novos(dc, total_clientes, hj) ==
    LET row == LastSnapshot(dc, hj)
        last_total == IF row # None THEN row[1].total_clientes ELSE 0
    IN  IF total_clientes - last_total > 0 THEN total_clientes - last_total
        ELSE 0

Registered_insert(dc, total_clientes, hj) ==
    Append(dc, DailyRow(hj, total_clientes, Novos(dc, total_clientes, hj)))

Registered(dc, total_clientes, hj) ==
    LET novos == Novos(dc, total_clientes, hj)
    IN  IF \E i \in 1..Len(dc) : dc[i].data = hj
        THEN [i \in 1..Len(dc) |->
                IF dc[i].data = hj
                THEN DailyRow(hj, total_clientes, novos)
                ELSE dc[i]]
        ELSE Append(dc, DailyRow(hj, total_clientes, novos))

register_daily_client_count(total_clientes) ==
    /\ pc = "idle"
    /\ daily_clients' = Registered(daily_clients, total_clientes, today)
    /\ UNCHANGED <<github, restore_msg, fetch, requests, levels_csv, levels_dict>>
    /\ UNCHANGED dbvars
    /\ UNCHANGED xvars
    /\ UNCHANGED uivars
    /\ UNCHANGED authvars

NextDaily ==
    \/ \E total_clientes \in Totals :
          register_daily_client_count(total_clientes)
    \/ NextDay

SpecDaily == Init /\ [][NextDaily]_vars

(***************************************************************************)
(* C21.  After any sequence of register_daily_client_count calls the table *)
(* daily_clients holds at most one row per date; a call leaves in the row  *)
(* of its date the total it was given (a second call on the same day       *)
(* updates the row), and leaves the rows of the other dates as they were;  *)
(* nothing else touches the table.                                         *)
(***************************************************************************)
C21_DailySnapshot ==
    [][/\ \A i, j \in 1..Len(daily_clients') :
            daily_clients'[i].data = daily_clients'[j].data => i = j
       /\ daily_clients' # daily_clients =>
            \E t \in Totals : register_daily_client_count(t)
       /\ \A t \in Totals :
            register_daily_client_count(t) =>
              /\ \E i \in 1..Len(daily_clients') :
                    /\ daily_clients'[i].data = today
                    /\ daily_clients'[i].total_clientes = t
              /\ \A i \in 1..Len(daily_clients) :
                    daily_clients[i].data # today =>
                       /\ i <= Len(daily_clients')
                       /\ daily_clients'[i] = daily_clients[i]
              /\ \A i \in 1..Len(daily_clients') :
                    daily_clients'[i].data # today =>
                       /\ i <= Len(daily_clients)
                       /\ daily_clients[i] = daily_clients'[i]
      ]_vars

\* Day 2 was registered beside the row of day 1, which is still as day 1
\* left it; the total fell, so no new client is counted.
C21_Witness ==
    /\ today = 2
    /\ daily_clients = <<DailyRow(1, 3, 3), DailyRow(2, 1, 0)>>

(***************************************************************************)
(* db.py: restore_db_from_github, and the buttons of the pages             *)
(* 98_Restaurar_DB_de_Backup.py and 99_Wipe_DB.py that call it or delete   *)
(* the database file.  A backup file is what requests.get and pd.read_csv  *)
(* make of it: no answer or an unreadable text ("raises"), a status other  *)
(* than 200, or the rows of the data frame.                                *)
(***************************************************************************)
Csv(rows) == [status |-> "200", rows |-> rows]
NotFound == [status |-> "404", rows |-> <<>>]
Unreadable == [status |-> "raises", rows |-> <<>>]

\* The level_history tables of one client with up to MaxLogRows rows.
RestoreEntries ==
    [evo_id : {<<"7">>}, data : {ZERO_ACTIVATION_DATE},
     nivel : {Some(<<"2","B">>), Some(<<"3","C">>)}]

RestoreTables == {LogTable(q) : q \in SeqsUpTo(RestoreEntries, MaxLogRows)}

ClientOf(nivel) == LogClients(LogTable(<<[evo_id |-> <<"7">>,
      data |-> ZERO_ACTIVATION_DATE, nivel |-> nivel]>>), {})[<<"7">>]

\* backups/clients.csv: header only, one client, two clients, and a file in
\* which somebody repeated the row of a client.
ClientFiles ==
    { <<>>,
      <<[evo_id |-> <<"7">>, row |-> ClientOf(Some(<<"2","B">>))]>>,
      <<[evo_id |-> <<"7">>, row |-> ClientOf(Some(<<"3","C">>))],
        [evo_id |-> <<"8">>, row |-> ClientOf(Some(<<"2","B">>))]>>,
      <<[evo_id |-> <<"7">>, row |-> ClientOf(Some(<<"2","B">>))],
        [evo_id |-> <<"7">>, row |-> ClientOf(Some(<<"3","C">>))]>> }

\* backups/level_history.csv: the tables above, and one with a repeated id.
HistoryFiles ==
    RestoreTables \cup
    { LET h == LogTable(<<[evo_id |-> <<"7">>, data |-> ZERO_ACTIVATION_DATE,
                           nivel |-> Some(<<"2","B">>)]>>)
      IN  h \o h }

\* backups/daily_clients.csv
DailyFiles ==
    { <<>>,
      <<DailyRow(1, 2, 2)>>,
      <<DailyRow(1, 2, 2), DailyRow(2, 3, 1)>> }

Responses(files) == {NotFound, Unreadable} \cup {Csv(f) : f \in files}

Githubs ==
    {NoGithub} \cup
    { [configured |-> TRUE,
       files |-> [clients |-> c, level_history |-> h, daily_clients |-> d]] :
         c \in Responses(ClientFiles), h \in Responses(HistoryFiles),
         d \in Responses(DailyFiles) }

Distinct(rows, Key(_)) ==
    \A i, j \in 1..Len(rows) : Key(rows[i]) = Key(rows[j]) => i = j

ClientsOfFrame(rows) ==
    [c \in {rows[i].evo_id : i \in 1..Len(rows)} |->
        rows[CHOOSE i \in 1..Len(rows) : rows[i].evo_id = c].row]

MaxId(h) ==
    IF h = <<>> THEN 0
    ELSE LET ids == {h[i].id : i \in 1..Len(h)}
         IN  CHOOSE m \in ids : \A k \in ids : k <= m

Ids(h) == {h[i].id : i \in 1..Len(h)}

Keys(rows) == {rows[i].evo_id : i \in 1..Len(rows)}

Db(c, h, n, d) ==
    [clients |-> c, level_history |-> h, last_id |-> n, daily_clients |-> d,
     total_rows |-> 0]

\* DB_PATH.unlink() and init_db_if_needed(): the tables exist and are empty;
\* daily_clients is not created.
Unlinked(db) == Db(<<>>, <<>>, 0, <<>>)

\* One turn of the loop for clients: df.to_sql(..., if_exists="append") after
\* a 200 answer with rows.  A repeated primary key raises, to_sql rolls its
\* transaction back and the except clause goes on with the next table.
ImportClients(db, resp) ==
    IF /\ resp.status = "200"
       /\ resp.rows # <<>>
       /\ Distinct(resp.rows, LAMBDA r : r.evo_id)
       /\ Keys(resp.rows) \cap DOMAIN db.clients = {}
    THEN [db EXCEPT !.clients = ClientsOfFrame(resp.rows) @@ db.clients,
                    !.total_rows = @ + Len(resp.rows)]
    ELSE db

\* The same for level_history; the counter of AUTOINCREMENT follows the ids.
ImportHistory(db, resp) ==
    IF /\ resp.status = "200"
       /\ resp.rows # <<>>
       /\ Distinct(resp.rows, LAMBDA r : r.id)
       /\ Ids(resp.rows) \cap Ids(db.level_history) = {}
    THEN LET h == db.level_history \o resp.rows
         IN  [db EXCEPT !.level_history = h,
                        !.last_id = IF MaxId(h) > @ THEN MaxId(h) ELSE @,
                        !.total_rows = @ + Len(resp.rows)]
    ELSE db

\* The same for daily_clients, a table that to_sql creates when it is absent,
\* with no primary key; one that _ensure_daily_clients_table created has one.
ImportDaily(db, resp) ==
    IF /\ resp.status = "200"
       /\ resp.rows # <<>>
       /\ db.daily_clients # <<>> =>
             Distinct(db.daily_clients \o resp.rows, LAMBDA r : r.data)
    THEN [db EXCEPT !.daily_clients = @ \o resp.rows,
                    !.total_rows = @ + Len(resp.rows)]
    ELSE db

\* for table in ["clients", "level_history", "daily_clients"]: ...
Imported(db, files) ==
    ImportDaily(ImportHistory(ImportClients(db, files.clients),
                              files.level_history),
                files.daily_clients)

Restored_keep(db, files) == Imported(db, files)

Restored(db, files) == Imported(Unlinked(db), files)

\* The button "Restaurar banco de dados do GitHub" of the pages 98 and 99.
RestoreButton ==
    /\ pc = "idle"
    /\ IF ~github.configured
       THEN /\ restore_msg' = Some(Failed)
            /\ UNCHANGED <<clients, level_history, last_id, daily_clients>>
       ELSE LET done == Restored(Db(clients, level_history, last_id,
                                    daily_clients), github.files)
            IN  /\ clients' = done.clients
                /\ level_history' = done.level_history
                /\ last_id' = done.last_id
                /\ daily_clients' = done.daily_clients
                /\ restore_msg' = Some(Success(done.total_rows))
    /\ UNCHANGED <<last_synced, pc, hoje, today, github, fetch, requests,
                   levels_csv, levels_dict>>
    /\ UNCHANGED xvars
    /\ UNCHANGED uivars
    /\ UNCHANGED authvars

\* The button "APAGAR ARQUIVO data/bts_clients.db" of the page 99.
WipeButton ==
    /\ pc = "idle"
    /\ clients' = <<>>
    /\ level_history' = <<>>
    /\ last_id' = 0
    /\ daily_clients' = <<>>
    /\ UNCHANGED <<last_synced, pc, hoje, today, github, restore_msg, fetch,
                   requests, levels_csv, levels_dict>>
    /\ UNCHANGED xvars
    /\ UNCHANGED uivars
    /\ UNCHANGED authvars

\* The state in which the maintenance pages are opened: syncs and daily
\* snapshots have filled the local database, and the repository holds backups.
InitRestore ==
    /\ level_history \in RestoreTables
    /\ clients = LogClients(level_history, {})
    /\ last_id = Len(level_history)
    /\ last_synced = <<>>
    /\ pc = "idle"
    /\ hoje = 0
    /\ today = MaxDay
    /\ NothingShown
    /\ daily_clients \in {<<>>, <<DailyRow(1, 1, 1)>>}
    /\ github \in Githubs
    /\ restore_msg = None
    /\ fetch = NoFetch
    /\ requests = <<>>
    /\ levels_csv = None
    /\ levels_dict = None
    /\ NoSession
    /\ x_in = NoneArg
    /\ x_db = None
    /\ x_split = None

NextRestore == RestoreButton \/ WipeButton

SpecRestore == InitRestore /\ [][NextRestore]_vars

(***************************************************************************)
(* C22.  When restore_db_from_github returns, the local rows are gone:     *)
(* each table holds exactly the rows of its backup CSV, or is empty; it    *)
(* holds them whenever the CSV was fetched and its keys are distinct; and  *)
(* the number returned is the number of rows the three tables hold.        *)
(***************************************************************************)
C22_RestoreReplaces ==
    [][(RestoreButton /\ restore_msg' # Some(Failed)) =>
          LET n == restore_msg'[1][2]
              c == github.files.clients
              h == github.files.level_history
              d == github.files.daily_clients
              IsCsv(tbl, rows) ==
                 /\ DOMAIN tbl = Keys(rows)
                 /\ Cardinality(DOMAIN tbl) = Len(rows)
                 /\ \A i \in 1..Len(rows) : tbl[rows[i].evo_id] = rows[i].row
          IN  /\ clients' = <<>> \/ (c.status = "200" /\ IsCsv(clients', c.rows))
              /\ (c.status = "200" /\ Distinct(c.rows, LAMBDA r : r.evo_id))
                    => IsCsv(clients', c.rows)
              /\ level_history' = <<>>
                    \/ (h.status = "200" /\ level_history' = h.rows)
              /\ (h.status = "200" /\ Distinct(h.rows, LAMBDA r : r.id))
                    => level_history' = h.rows
              /\ daily_clients' = IF d.status = "200" THEN d.rows ELSE <<>>
              /\ restore_msg' = Some(Success(n))
              /\ n = Cardinality(DOMAIN clients') + Len(level_history')
                        + Len(daily_clients')
      ]_vars

\* A restore has returned 3: the two clients and the one daily row of the
\* backups, and no history, whose file the repository does not have.
C22_Witness ==
    /\ restore_msg = Some(Success(3))
    /\ github.files.level_history = NotFound
    /\ level_history = <<>>
    /\ DOMAIN clients = {<<"7">>, <<"8">>}
    /\ daily_clients = <<DailyRow(1, 2, 2)>>

(***************************************************************************)
(* dashboard_page.py: the levels of the members of the schedule, fetched   *)
(* from the EVO API one profile at a time.  Time is kept as one bit: late  *)
(* is TRUE once time.time() - start_ts exceeds max_total_seconds, which    *)
(* may happen during any request and any sleep.                            *)
(***************************************************************************)
MaxIds == 2

max_retries_429 == 6

\* member_ids_t = tuple(sorted(member_ids)): increasing ids.
IdTuples ==
    {ids \in SeqsUpTo(1..MaxIds, MaxIds) :
        \A i, j \in 1..Len(ids) : i < j => ids[i] < ids[j]}

\* memberLevel of a profile: the currentLevelName of each entry ('' for a
\* missing one).
MemberLevels ==
    { <<>>,
      << <<" ","2","b","s","k"," ">> >>,
      << <<"1","A","S","B">>, <<>>, <<"2","B","S","K">> >> }

\* What a call of _get_member_profile_v2 brings: the profile, or the
\* exception of _get_json or of requests; str(e) is the status and the text.
Answer(status, text, memberLevel) ==
    [status |-> status, text |-> text, memberLevel |-> memberLevel]

Answers ==
    {Answer(200, "", ml) : ml \in MemberLevels} \cup
    { Answer(429, "request limit", <<>>),
      Answer(503, "too many requests", <<>>),
      Answer(500, "internal error", <<>>),
      Answer(0, "read timed out", <<>>) }

NoAnswer == Answer(0, "", <<>>)

StrOfErr(e) == [status |-> e.status, text |-> e.text]

timeout_total_seconds == [status |-> 0, text |-> "timeout_total_seconds"]

\* lit in s
Contains(s, lit) ==
    \E i \in 1..(Len(s) - Len(lit) + 1) : SubSeq(s, i, i + Len(lit) - 1) = lit

NoLevels == [ski |-> EmptyStr, snow |-> EmptyStr]

RECURSIVE RouteFrom(_, _, _)
RouteFrom(ml, i, out) ==
    IF i > Len(ml) THEN out
    ELSE LET lvl == UpperStr(Strip(ml[i]))
             snow == IF Contains(lvl, <<"S","B">>) THEN lvl ELSE out.snow
             ski == IF Contains(lvl, <<"S","K">>) THEN lvl ELSE out.ski
         IN  IF lvl = EmptyStr THEN RouteFrom(ml, i + 1, out)
             ELSE RouteFrom(ml, i + 1, [ski |-> ski, snow |-> snow])

_route_levels_to_ski_snow(memberLevel) == RouteFrom(memberLevel, 1, NoLevels)

_is_rate_limit_error_any(err) == TRUE

_is_rate_limit_error(err) ==
    \/ err.status = 429
    \/ err.text = "request limit"
    \/ err.text = "too many requests"

\* The call: start_ts, levels_api = {}, errors = {}.
_api_fetch_levels_for_ids(member_ids) ==
    /\ fetch.pc = "idle"
    /\ fetch' = [NoFetch EXCEPT !.pc = "for", !.member_ids = member_ids]
    /\ requests' = [mid \in {member_ids[i] : i \in 1..Len(member_ids)} |->
                        [count |-> 0, last |-> NoAnswer]]
    /\ UNCHANGED <<daily_clients, github, restore_msg, levels_csv, levels_dict>>
    /\ UNCHANGED dbvars
    /\ UNCHANGED xvars
    /\ UNCHANGED uivars
    /\ UNCHANGED authvars

\* for idx, mid in enumerate(member_ids): the time check, the throttle sleep
\* and attempt = 0; or the return when the tuple is exhausted.
ForStep ==
    /\ fetch.pc = "for"
    /\ IF fetch.idx = Len(fetch.member_ids)
       THEN fetch' = [fetch EXCEPT !.pc = "done"]
       ELSE LET mid == fetch.member_ids[fetch.idx + 1]
            IN  IF fetch.late
                THEN fetch' = [fetch EXCEPT
                                 !.errors = (mid :> timeout_total_seconds) @@ @,
                                 !.idx = @ + 1]
                ELSE \E late \in (IF fetch.idx > 0 THEN BOOLEAN ELSE {FALSE}) :
                        fetch' = [fetch EXCEPT !.pc = "try", !.attempt = 0,
                                               !.late = late]
    /\ UNCHANGED <<daily_clients, github, restore_msg, requests, levels_csv,
                   levels_dict>>
    /\ UNCHANGED dbvars
    /\ UNCHANGED xvars
    /\ UNCHANGED uivars
    /\ UNCHANGED authvars

\* One turn of while True: the request brings `answer`, after which the clock
\* may have passed max_total_seconds.
TryStep(answer) ==
    /\ fetch.pc = "try"
    /\ LET mid == fetch.member_ids[fetch.idx + 1]
       IN  /\ requests' = [requests EXCEPT ![mid] =
                                [count |-> @.count + 1, last |-> answer]]
           /\ \E late \in {fetch.late, TRUE} :
                IF answer.status = 200
                THEN fetch' = [fetch EXCEPT
                       !.levels_api =
                           (mid :> _route_levels_to_ski_snow(answer.memberLevel)) @@ @,
                       !.pc = "for", !.idx = @ + 1, !.late = late]
                ELSE IF /\ _is_rate_limit_error(StrOfErr(answer))
                        /\ fetch.attempt < max_retries_429
                     THEN fetch' = [fetch EXCEPT !.attempt = @ + 1, !.late = late]
                     ELSE fetch' = [fetch EXCEPT
                            !.errors = (mid :> StrOfErr(answer)) @@ @,
                            !.levels_api = (mid :> NoLevels) @@ @,
                            !.pc = "for", !.idx = @ + 1, !.late = late]
    /\ UNCHANGED <<daily_clients, github, restore_msg, levels_csv, levels_dict>>
    /\ UNCHANGED dbvars
    /\ UNCHANGED xvars
    /\ UNCHANGED uivars
    /\ UNCHANGED authvars

\* What _load_levels_dict_from_csv returns: the dictionary, {} when there is
\* no file or no column; it raises when the file cannot be read.
Loaded(dict) == [error |-> "", dict |-> dict]

LoadFailed == [error |-> "RuntimeError", dict |-> <<>>]

\* The values are those _parse_levels_history builds: normalised codes.
LevelsCsvs ==
    { <<>>,
      1 :> [ski |-> <<"1","A","S","K">>, snow |-> EmptyStr],
      (1 :> [ski |-> <<"3","C","S","K">>, snow |-> <<"2","B","S","B">>])
        @@ (2 :> [ski |-> EmptyStr, snow |-> <<"1","A","S","B">>]) }

\* d.get(mid) or {"ski": "", "snow": ""}
GetLevels(d, mid) == IF mid \in DOMAIN d THEN d[mid] ELSE NoLevels

_merge_levels_api_with_csv_csv_first(levels_api, member_ids, csv) ==
    [mid \in {member_ids[i] : i \in 1..Len(member_ids)} |->
        LET a == GetLevels(levels_api, mid)
            c == GetLevels(csv, mid)
        IN  [ski |-> IF Strip(c.ski) # EmptyStr THEN Strip(c.ski) ELSE Strip(a.ski),
             snow |-> IF Strip(c.snow) # EmptyStr THEN Strip(c.snow)
                      ELSE Strip(a.snow)]]

_merge_levels_api_with_csv(levels_api, member_ids, csv) ==
    [mid \in {member_ids[i] : i \in 1..Len(member_ids)} |->
        LET a == GetLevels(levels_api, mid)
            c == GetLevels(csv, mid)
        IN  [ski |-> IF Strip(a.ski) # EmptyStr THEN Strip(a.ski) ELSE Strip(c.ski),
             snow |-> IF Strip(a.snow) # EmptyStr THEN Strip(a.snow)
                      ELSE Strip(c.snow)]]

\* gerar_csv after the fetch: levels_dict = _merge_levels_api_with_csv(
\* levels_api, member_ids_t), which loads the CSV dictionary first.
MergeLevels(csv) ==
    /\ fetch.pc = "done"
    /\ levels_dict = None
    /\ levels_csv' = Some(csv)
    /\ levels_dict' =
          Some(IF csv.error = ""
               THEN Loaded(_merge_levels_api_with_csv(fetch.levels_api,
                                                      fetch.member_ids, csv.dict))
               ELSE LoadFailed)
    /\ UNCHANGED <<daily_clients, github, restore_msg, fetch, requests>>
    /\ UNCHANGED dbvars
    /\ UNCHANGED xvars
    /\ UNCHANGED uivars
    /\ UNCHANGED authvars

RunFetch == ForStep \/ \E answer \in Answers : TryStep(answer)

NextFetch ==
    \/ \E member_ids \in IdTuples : _api_fetch_levels_for_ids(member_ids)
    \/ RunFetch
    \/ \E csv \in {LoadFailed} \cup {Loaded(d) : d \in LevelsCsvs} : MergeLevels(csv)

\* Once called the function keeps running: every request answers or times
\* out (timeout=30) and every sleep ends.
SpecFetch == Init /\ [][NextFetch]_vars /\ WF_vars(RunFetch)

(***************************************************************************)
(* C23.  _api_fetch_levels_for_ids returns, whatever the ids and the       *)
(* answers.  A profile is requested again only after a rate-limit answer   *)
(* (status 429, or a message naming the request limit) and at most         *)
(* max_retries_429 times, so at most max_retries_429 + 1 times; any other  *)
(* error ends the attempts of its id at once, with an entry in errors and  *)
(* an empty level entry; an id reached after max_total_seconds gets        *)
(* 'timeout_total_seconds' in errors and no request.                       *)
(***************************************************************************)
C23_RateLimit(a) ==
    a.status = 429 \/ a.text \in {"request limit", "too many requests"}

C23_Attempts ==
    \A k \in 1..Len(fetch.member_ids) :
       LET mid == fetch.member_ids[k]
           rq == requests[mid]
           finished == k <= fetch.idx
       IN  /\ rq.count <= max_retries_429 + 1
           /\ (rq.count > 0 /\ rq.last.status # 200 /\ ~C23_RateLimit(rq.last)) =>
                 finished
           /\ (finished /\ rq.count > 0 /\ rq.last.status # 200) =>
                 /\ mid \in DOMAIN fetch.errors
                 /\ fetch.errors[mid] = [status |-> rq.last.status,
                                         text |-> rq.last.text]
                 /\ fetch.levels_api[mid] = [ski |-> <<>>, snow |-> <<>>]
           /\ (finished /\ rq.count = 0) =>
                 /\ mid \in DOMAIN fetch.errors
                 /\ fetch.errors[mid] = timeout_total_seconds
           /\ ~finished => mid \notin DOMAIN fetch.errors

C23_Steps ==
    /\ \A answer \in Answers :
          TryStep(answer) =>
             LET rq == requests[fetch.member_ids[fetch.idx + 1]]
             IN  rq.count > 0 => C23_RateLimit(rq.last)
    /\ (ForStep /\ fetch.late /\ fetch.idx < Len(fetch.member_ids)) =>
          LET mid == fetch.member_ids[fetch.idx + 1]
          IN  /\ fetch'.idx = fetch.idx + 1
              /\ fetch'.errors[mid] = timeout_total_seconds
              /\ requests' = requests
              /\ requests[mid].count = 0

C23_FetchTerminates ==
    /\ []C23_Attempts
    /\ [][C23_Steps]_vars
    /\ (fetch.pc # "idle") ~> (fetch.pc = "done")

\* The call has returned; member 1 was requested seven times, each answer a
\* rate-limit error, and member 2, reached too late, was never requested.
C23_Witness ==
    /\ fetch.pc = "done"
    /\ fetch.member_ids = <<1, 2>>
    /\ requests[1].count = max_retries_429 + 1
    /\ requests[1].last.status = 429
    /\ requests[2].count = 0
    /\ fetch.errors[2] = timeout_total_seconds

(***************************************************************************)
(* C24.  API first: the merge returns an entry for every id of member_ids, *)
(* fetched or not; its ski and its snow are each the value the API gave    *)
(* when that value is not empty, and otherwise the value of the CSV for    *)
(* that id and discipline ('' when the CSV has none).                      *)
(***************************************************************************)
C24_ApiFirst ==
    (levels_dict # None /\ levels_dict[1].error = "") =>
       LET out == levels_dict[1].dict
           Value(d, mid, disc) == IF mid \in DOMAIN d THEN d[mid][disc] ELSE <<>>
       IN  \A k \in 1..Len(fetch.member_ids) :
              LET mid == fetch.member_ids[k]
              IN  /\ mid \in DOMAIN out
                  /\ \A disc \in {"ski", "snow"} :
                        LET api == Value(fetch.levels_api, mid, disc)
                            csv == Value(levels_csv[1].dict, mid, disc)
                        IN  out[mid][disc] = IF api # <<>> THEN api ELSE csv

\* Member 1 has a ski level from the API and a snow level only in the CSV;
\* member 2, never fetched because the time was over, has the CSV's.
C24_Witness ==
    /\ levels_dict # None
    /\ levels_dict[1].error = ""
    /\ fetch.member_ids = <<1, 2>>
    /\ 2 \notin DOMAIN fetch.levels_api
    /\ fetch.levels_api[1] = [ski |-> <<"2","B","S","K">>, snow |-> <<>>]
    /\ levels_dict[1].dict[1] = [ski |-> <<"2","B","S","K">>,
                                 snow |-> <<"2","B","S","B">>]
    /\ levels_dict[1].dict[2] = [ski |-> <<>>, snow |-> <<"1","A","S","B">>]

(***************************************************************************)
(* auth.py: the login gate.  One step is one run of the script up to the   *)
(* return of require_login; st.stop() and st.experimental_rerun() both     *)
(* end the run without handing control back to the page.                   *)
(***************************************************************************)
USERS ==
    ("admin" :> [password |-> "BTS1234%", role |-> "admin"])
    @@ ("funcionaria" :> [password |-> "Isa1234%", role |-> "colaborador"])

\* _init_auth_state and logout: the state of a session that is not logged in.
LoggedOut == [logged_in |-> FALSE, username |-> None, role |-> None]

LoggedIn(username) ==
    [logged_in |-> TRUE, username |-> Some(username),
     role |-> Some(USERS[username].role)]

\* What the login form can bring: the users and an unknown name, each
\* password and none.
Usernames == {"admin", "funcionaria", "isa"}

Passwords == {"BTS1234%", "Isa1234%", ""}

\* allowed_roles: None (the default), the list of app.py, and a narrower one.
AllowedRoles == {None, Some({"admin", "colaborador"}), Some({"admin"})}

Run(allowed_roles, control) ==
    Some([allowed_roles |-> allowed_roles, control |-> control])

\* user_cfg and user_cfg["password"] == password
CredentialsOk_any_password(username, password) == username \in DOMAIN USERS

CredentialsOk(username, password) ==
    /\ username \in DOMAIN USERS
    /\ USERS[username].password = password

\* require_login(allowed_roles) in a run of session s where the button "Sair"
\* is pressed (sair), or the form is submitted (ok) with username and password.
require_login(s, allowed_roles, sair, ok, username, password) ==
    /\ LET state == IF auth[s] = None THEN LoggedOut ELSE auth[s][1]
       IN  IF state.logged_in
           THEN /\ supplied' = supplied
                /\ IF sair
                   THEN /\ auth' = [auth EXCEPT ![s] = Some(LoggedOut)]
                        /\ page' = [page EXCEPT ![s] = Run(allowed_roles, "halted")]
                   ELSE /\ auth' = [auth EXCEPT ![s] = Some(state)]
                        /\ IF /\ allowed_roles # None
                              /\ state.role[1] \notin allowed_roles[1]
                           THEN page' = [page EXCEPT ![s] = Run(allowed_roles, "halted")]
                           ELSE page' = [page EXCEPT ![s] = Run(allowed_roles, "returned")]
           ELSE /\ page' = [page EXCEPT ![s] = Run(allowed_roles, "halted")]
                /\ IF ok
                   THEN /\ supplied' = [supplied EXCEPT ![s] =
                                          Some([username |-> username,
                                                password |-> password])]
                        /\ IF CredentialsOk(username, password)
                           THEN auth' = [auth EXCEPT ![s] = Some(LoggedIn(username))]
                           ELSE auth' = [auth EXCEPT ![s] = Some(state)]
                   ELSE /\ supplied' = supplied
                        /\ auth' = [auth EXCEPT ![s] = Some(state)]
    /\ UNCHANGED dbvars
    /\ UNCHANGED xvars
    /\ UNCHANGED <<sync_msg, df_changes, df_hist>>
    /\ UNCHANGED sidevars

\* What the user did before a run: nothing, pressed "Sair" (a button that only
\* a logged-in session shows), or submitted the form (shown otherwise).
Clicks ==
    { [sair |-> FALSE, ok |-> FALSE, username |-> "", password |-> ""],
      [sair |-> TRUE, ok |-> FALSE, username |-> "", password |-> ""] }
    \cup [sair : {FALSE}, ok : {TRUE}, username : Usernames, password : Passwords]

NextAuth ==
    \E s \in Sessions, allowed_roles \in AllowedRoles, c \in Clicks :
         require_login(s, allowed_roles, c.sair, c.ok, c.username, c.password)

SpecAuth == Init /\ [][NextAuth]_vars

(***************************************************************************)
(* C25.  require_login hands control back to the page only when the        *)
(* session is logged in and allowed_roles is None or holds the role of the *)
(* session; a logged-in session always carries a user of USERS whose       *)
(* password was supplied in that session, with the role configured for     *)
(* that user; and a logout leaves logged_in False with no username and no  *)
(* role.                                                                   *)
(***************************************************************************)
C25_Session ==
    \A s \in Sessions :
       /\ (page[s] # None /\ page[s][1].control = "returned") =>
             /\ auth[s] # None
             /\ auth[s][1].logged_in
             /\ \/ page[s][1].allowed_roles = None
                \/ auth[s][1].role[1] \in page[s][1].allowed_roles[1]
       /\ (auth[s] # None /\ auth[s][1].logged_in) =>
             \E u \in {"admin", "funcionaria"} :
                /\ auth[s][1].username = <<u>>
                /\ supplied[s] = <<[username |-> u,
                                    password |-> IF u = "admin" THEN "BTS1234%"
                                                 ELSE "Isa1234%"]>>
                /\ auth[s][1].role =
                      <<IF u = "admin" THEN "admin" ELSE "colaborador">>

C25_Logout ==
    \A s \in Sessions, allowed_roles \in AllowedRoles :
         (/\ auth[s] # None
          /\ auth[s][1].logged_in
          /\ require_login(s, allowed_roles, TRUE, FALSE, "", "")) =>
            auth'[s] = <<[logged_in |-> FALSE, username |-> <<>>, role |-> <<>>]>>

C25_LoginGate == []C25_Session /\ [][C25_Logout]_vars

\* In session 1 the collaborator is logged in and a run that admits only
\* admins was halted; session 2, which had logged in as admin, has logged out.
C25_Witness ==
    /\ auth[1] # None
    /\ auth[1][1].logged_in
    /\ auth[1][1].role = <<"colaborador">>
    /\ page[1] = Run(Some({"admin"}), "halted")
    /\ auth[2] = Some(LoggedOut)
    /\ supplied[2] = Some([username |-> "admin", password |-> "BTS1234%"])

(***************************************************************************)
(* C26.  The two extractors agree: for every input string both return the  *)
(* same level, and LEVEL_ORDER and LEVEL_ORDER_MAP give it the same rank;  *)
(* so the level and the rank the sync derives from the column Nome         *)
(* (stripped once more, db.py:360-362) are the NivelAtual and NivelOrdem   *)
(* of the data frame, which split_nome_e_nivel computed from the same Nome.*)
(***************************************************************************)
C26_ExtractorsAgree ==
    (x_in.kind = "str" /\ x_db # None /\ x_split # None) =>
       LET synced == _extract_nome_e_nivel(StrArg(Strip(x_in.text)))
       IN  /\ x_split[1] # TypeError
           /\ x_split[1][2] = x_db[1][2]
           /\ x_split[1][3] = DictGet(LEVEL_ORDER, x_db[1][2])
           /\ x_split[1][2] = synced[2]
           /\ x_split[1][3] = DictGet(LEVEL_ORDER, synced[2])

\* A label with blanks around it and two codes, one of them lower case with a
\* discipline: both extractors answer 3C, rank 32.
C26_Witness ==
    /\ x_in = StrArg(<<" ","1","b","s","k","3","C">>)
    /\ x_db # None /\ x_db[1][2] = Some(<<"3","C">>)
    /\ x_split # None /\ x_split[1][2] = Some(<<"3","C">>)
    /\ x_split[1][3] = Some(32)

(***************************************************************************)
(* C27.  From an empty database, after any sequence of syncs: every client *)
(* whose nivel_atual is not NULL has history rows, and the last inserted   *)
(* of them carries the nivel_atual and the nivel_ordem of the client.      *)
(***************************************************************************)
C27_LastRowIsCurrentLevel ==
    \A c \in DOMAIN clients :
       clients[c].nivel_atual # None =>
          LET mine == HistoryOf(level_history, c)
          IN  /\ mine # <<>>
              /\ \A i \in 1..Len(mine) :
                    (\A j \in 1..Len(mine) : mine[j].id <= mine[i].id) =>
                       /\ mine[i].nivel = clients[c].nivel_atual
                       /\ mine[i].nivel_ordem = clients[c].nivel_ordem

\* Client 7 went from 2B to 3C and to 2B again: three rows, the last one 2B,
\* the level of the client.
C27_Witness ==
    /\ <<"7">> \in DOMAIN clients
    /\ clients[<<"7">>].nivel_atual = Some(<<"2","B">>)
    /\ Len(HistoryOf(level_history, <<"7">>)) = 3
    /\ HistoryOf(level_history, <<"7">>)[2].nivel = Some(<<"3","C">>)
    /\ sync_msg # None /\ sync_msg # Some(Failed)

(***************************************************************************)
(* C28.  sync_clients_from_df is all or nothing: the upserts and the       *)
(* history rows of a batch are committed by the one commit after the loop, *)
(* so when the call raises at some row, whichever it is, clients and       *)
(* level_history are as they were before the call.  A call that raised is  *)
(* a click after which the handler shows the error.                        *)
(***************************************************************************)
C28_AllOrNothing ==
    [][(sync_msg' = <<(<<"error">>)>> /\ today' = today) =>
          /\ clients' = clients
          /\ level_history' = level_history
          /\ last_id' = last_id
      ]_vars

\* A click failed after an earlier one had succeeded: the database still holds
\* exactly what the earlier click wrote, one client and one history row.
C28_Witness ==
    /\ sync_msg = Some(Failed)
    /\ DOMAIN clients = {<<"7">>}
    /\ Len(level_history) = 1

====
